---- MODULE Spec2Model ----
(***************************************************************************)
(* Verification model of auto_bot: the scrape-and-notify job of            *)
(* AutoDealBot (src/src/main.py), the Repository it persists into          *)
(* (src/src/database/repository.py), the two analyzers and the list.am     *)
(* scraper, the ProxyManager (src/src/proxy_manager.py) and the retry loop  *)
(* of BaseScraper._fetch_page (src/src/scrapers/base.py).                  *)
(*                                                                         *)
(* Prices are whole dollars, time is counted in hours, scores in tenths.   *)
(* A cycle is far shorter than an hour, so the clock only moves between    *)
(* cycles.  The ProxyManager counts its time in minutes; success rates are *)
(* compared as fractions.                                                  *)
(*                                                                         *)
(* Spec is the job with its repository and the scraper without proxies,    *)
(* PoolSpec a ProxyManager used by two coroutines, FetchSpec a scraper     *)
(* with a ProxyManager, StopSpec the job with AutoDealBot.stop, JobsSpec   *)
(* the scraper beside the proxy_refresh job, IngestSpec one pass of the    *)
(* listing loop on stored data, RestartSpec and RetrySpec the job started  *)
(* on the database of an earlier run.                                      *)
(***************************************************************************)
EXTENDS Integers, Sequences, FiniteSets, TLC

\* ------------------------------------------------------------------ bounds
MaxBatch == 2
MaxCycles == 2
MaxPages == 2
NumTargets == 2
NumSources == 2
MaxCalls == 2
MaxFails == 5
MaxSuccesses == 2
MaxMinutes == 16
MaxComparable == 10
MaxLater == 2
\* ProxyManager(min_pool_size=...), 10 by default
min_pool_size == 2

\* ------------------------------------------------------- program constants
None == -1
DEDUP_HOURS == 24
PRICE_DROP_NOTIFY_PERCENT == 5
GOOD_DEAL_PERCENTILE == 20
SIGNIFICANT_DISCOUNT_PERCENT == 15
MIN_SAMPLES_FOR_CONFIDENCE == 5
SIGNIFICANT_DROP_PERCENT == 5
MAJOR_DROP_PERCENT == 10
URGENT_THRESHOLD == 3
max_retries == 3
delay_min == 5
delay_max == 15
refresh_interval == 15
MIN_SUCCESS_RATE == 2

SOURCE_NAME == "list.am"

\* ------------------------------------------------------------ input domains
ListingIds == {"a", "b"}
Prices == {60, 95, 96, 100}
Titles == {"BMW X5", "BMW X5 urgent"}
Elapse == {12, 24, 25}

\* CarListing records as parse_listing_element builds them.
DetectUrgency(title) == title = "BMW X5 urgent"

CarListing(id, price, title) ==
    [source |-> SOURCE_NAME, listing_id |-> id, make |-> "BMW", model |-> "X5",
     year |-> 2021, price_usd |-> price, title |-> title,
     is_urgent |-> DetectUrgency(title)]

\* The listings a batch is drawn from: listing "a" at each price, listing "b"
\* cheap or dear, with and without an urgency keyword in its title.
CarListings ==
    {CarListing("a", p, "BMW X5") : p \in Prices}
    \cup {CarListing("b", p, t) : p \in {60, 100}, t \in Titles}

SeqsUpTo(S, n) == UNION {[1..k -> S] : k \in 0..n}

\* Listing elements (".gl") as a result page serves them: the link, the title
\* and the price text, already split into amount and currency sign.
Element(id, title, amount, currency) ==
    [href_item |-> TRUE, listing_id |-> id, title |-> title,
     amount |-> amount, currency |-> currency]

ElemA == Element("a", "BMW X5", 100, "USD")
ElemB == Element("b", "BMW X5 urgent", 24000, "AMD")

\* What one result page can hold, and a site: for each target of TARGET_CARS
\* the contents of its result pages.
PageContents == {<<>>, <<ElemA>>, <<ElemA, ElemB>>}
Sites == [1..NumTargets -> [1..MaxPages -> PageContents]]

VARIABLES
    now,                    \* datetime.utcnow(), in hours
    listings,               \* table listings: row id -> row
    price_history,          \* table price_history, in insertion order
    sent_notifications,     \* table sent_notifications, in insertion order
    scrape_count,           \* AutoDealBot._scrape_count
    notifications_sent,     \* AutoDealBot._notifications_sent
    pc,                     \* position of scrape_and_notify
    all_listings,           \* iterator of the listing loop: the listings not reached yet
    cur,                    \* locals of the loop body: car_listing, listing, is_new, ...
    notifications_to_send,  \* the cycle's queue of NotificationData
    j,                      \* index of the notification being dispatched
    message_id,             \* result of the last send_notification
    events,                 \* dispatch log of the cycle: sends, records, sleeps
    outcomes,               \* how the loop body ended for each listing reached so far
    escaped,                \* an exception left scrape_and_notify
    site,                   \* listing elements the site serves this cycle
    spc,                    \* position of ListAmScraper.scrape_listings
    target,                 \* index into TARGET_CARS
    page_num,               \* page of the current target
    attempt,                \* attempt of _fetch_page on the current page
    scraped,                \* all_listings of scrape_listings
    slog,                   \* scraper log: fetches, delays, parse failures
    proxies,                \* ProxyManager._proxies
    last_refresh,           \* ProxyManager._last_refresh, in minutes, or None
    lock,                   \* ProxyManager._lock: its holder (or "free") and its waiters
    pnow,                   \* datetime.utcnow() as the ProxyManager reads it, in minutes
    ppc,                    \* position of each coroutine that uses the ProxyManager
    by_get,                 \* whether the coroutine's refresh_proxies was called by get_proxy
    source,                 \* refresh_proxies: index into PROXY_SOURCES, per coroutine
    all_proxies,            \* refresh_proxies: all_proxies, per coroutine
    selected,               \* what the coroutine's last get_proxy returned
    calls,                  \* calls of get_proxy and refresh_proxies made so far
    evicted,                \* URLs mark_proxy_failed removed, per get_proxy call that follows
    current_proxy,          \* _fetch_page: current_proxy
    browser,                \* BaseScraper._browser: the proxy it was launched with
    backoffs,               \* _fetch_page: the sleeps of the call so far, in seconds
    stop_pc                 \* position of AutoDealBot.stop, "running" before it is called

repo == <<listings, price_history, sent_notifications>>
cycle == <<scrape_count, notifications_sent, pc, all_listings, cur,
           notifications_to_send, j, message_id, events, outcomes, escaped>>
scraper == <<site, spc, target, page_num, attempt, scraped, slog>>
pool == <<proxies, last_refresh, lock, pnow, ppc, by_get, source, all_proxies,
          selected, calls, evicted>>
fetcher == <<current_proxy, browser, backoffs>>
net == <<pool, fetcher>>
vars == <<now, repo, cycle, scraper, net, stop_pc>>

\* ================================================================ Repository
\* Rows of the three tables.  A row id is its position: ids autoincrement
\* and no row is ever deleted.
ListingRow(data) ==
    [source |-> data.source, listing_id |-> data.listing_id, make |-> data.make,
     model |-> data.model, year |-> data.year, price_usd |-> data.price_usd,
     title |-> data.title, is_urgent |-> data.is_urgent]

PriceHistory(listing_db_id, price) == [listing_id |-> listing_db_id, price_usd |-> price]

SentNotification(listing_db_id, reason, t) ==
    [listing_id |-> listing_db_id, reason |-> reason, sent_at |-> t]

\* select(Listing).where(source == ..., listing_id == ...)
SelectListing(tbl, data) ==
    {r \in DOMAIN tbl : tbl[r].source = data.source /\ tbl[r].listing_id = data.listing_id}

\* Index idx_source_listing_id, unique=True: an insert of a taken key fails.
UniqueViolation(tbl, row) ==
    \E r \in DOMAIN tbl : tbl[r].source = row.source /\ tbl[r].listing_id = row.listing_id

\* The update branch of upsert_listing: every non-null field of listing_data
\* is copied onto the existing row (of the fields here only year can be None).
UpdatedRow(existing, data) ==
    [ListingRow(data) EXCEPT !.year = IF data.year # None THEN data.year ELSE existing.year]

\* Column.ilike("%pattern%").  No make or model of the input domain is a
\* substring of another, so containment is equality here.
ILike(value, pattern) == value = pattern

InYearRange(row, year) == row.year # None /\ row.year >= year - 1 /\ row.year <= year + 1

\* Ascending sort of the prices of a set of rows, as a sequence.
RECURSIVE SortedPrices(_, _)
SortedPrices(tbl, rows) ==
    IF rows = {} THEN <<>>
    ELSE LET m == CHOOSE r \in rows : \A q \in rows :
                      \/ tbl[r].price_usd < tbl[q].price_usd
                      \/ (tbl[r].price_usd = tbl[q].price_usd /\ r <= q)
         IN <<tbl[m].price_usd>> \o SortedPrices(tbl, rows \ {m})

RECURSIVE SumPrices(_, _)
SumPrices(tbl, rows) ==
    IF rows = {} THEN 0
    ELSE LET m == CHOOSE r \in rows : TRUE
         IN tbl[m].price_usd + SumPrices(tbl, rows \ {m})

get_listings_by_make(tbl, make, min_year) ==
    {r \in DOMAIN tbl :
        /\ ILike(tbl[r].make, make)
        /\ (min_year # None /\ min_year # 0) => (tbl[r].year # None /\ tbl[r].year >= min_year)}

get_price_percentile_RoundUp(tbl, make, year, percentile) ==
    LET rows == {r \in DOMAIN tbl :
                    /\ ILike(tbl[r].make, make)
                    /\ (year # None /\ year # 0) => InYearRange(tbl[r], year)}
        prices == SortedPrices(tbl, rows)
        idx == (Len(prices) * percentile + 99) \div 100
    IN IF Len(prices) < 3 THEN None ELSE prices[idx + 1]

get_price_percentile(tbl, make, year, percentile) ==
    LET rows == {r \in DOMAIN tbl :
                    /\ ILike(tbl[r].make, make)
                    /\ (year # None /\ year # 0) => InYearRange(tbl[r], year)}
        prices == SortedPrices(tbl, rows)
        idx == (Len(prices) * percentile) \div 100
    IN IF Len(prices) < 3 THEN None ELSE prices[idx + 1]

\* func.avg(price_usd): the mean as the pair (sum, n); n = 0 stands for NULL.
get_average_price(tbl, make, model, year) ==
    LET rows == {r \in DOMAIN tbl :
                    /\ ILike(tbl[r].make, make)
                    /\ (model # "") => ILike(tbl[r].model, model)
                    /\ (year # None /\ year # 0) => InYearRange(tbl[r], year)}
    IN [sum |-> SumPrices(tbl, rows), n |-> Cardinality(rows)]

\* Prices of one listing, most recent first (order_by recorded_at desc).
RECURSIVE get_price_history(_, _)
get_price_history(hist, listing_db_id) ==
    IF hist = <<>> THEN <<>>
    ELSE LET last == hist[Len(hist)]
             rest == get_price_history(SubSeq(hist, 1, Len(hist) - 1), listing_db_id)
         IN IF last.listing_id = listing_db_id THEN <<last.price_usd>> \o rest ELSE rest

get_price_drop_Oldest(hist, listing_db_id) ==
    LET history == get_price_history(hist, listing_db_id)
    IN IF Len(history) < 2 THEN [defined |-> FALSE, current |-> 0, previous |-> 0]
       ELSE IF history[Len(history)] = 0 THEN [defined |-> FALSE, current |-> 0, previous |-> 0]
       ELSE [defined |-> TRUE, current |-> history[1], previous |-> history[Len(history)]]

\* The drop as the pair (current, previous); defined = FALSE stands for None.
get_price_drop(hist, listing_db_id) ==
    LET history == get_price_history(hist, listing_db_id)
    IN IF Len(history) < 2 THEN [defined |-> FALSE, current |-> 0, previous |-> 0]
       ELSE IF history[2] = 0 THEN [defined |-> FALSE, current |-> 0, previous |-> 0]
       ELSE [defined |-> TRUE, current |-> history[1], previous |-> history[2]]

\* ((current - previous) / previous) * 100 < -percent
DropBelow(drop, percent) ==
    drop.defined /\ (drop.current - drop.previous) * 100 < (0 - percent) * drop.previous

\* Rows of sent_notifications for the listing with sent_at >= utcnow - hours.
RecentNotifications(sent, listing_db_id, hours, t) ==
    {n \in DOMAIN sent : sent[n].listing_id = listing_db_id /\ sent[n].sent_at >= t - hours}

\* ================================================================= Analyzers
Confidence(sample_size) ==
    IF sample_size >= MIN_SAMPLES_FOR_CONFIDENCE * 2 THEN 10
    ELSE IF sample_size >= MIN_SAMPLES_FOR_CONFIDENCE THEN 7
    ELSE IF sample_size >= 3 THEN 4
    ELSE 2

BelowMarket_Inclusive(avg, price) ==
    /\ avg.n > 0
    /\ avg.sum > 0
    /\ (avg.sum - avg.n * price) * 100 >= SIGNIFICANT_DISCOUNT_PERCENT * avg.sum

\* ((market_avg - price) / market_avg) * 100 > SIGNIFICANT_DISCOUNT_PERCENT
BelowMarket(avg, price) ==
    /\ avg.n > 0
    /\ avg.sum > 0
    /\ (avg.sum - avg.n * price) * 100 > SIGNIFICANT_DISCOUNT_PERCENT * avg.sum

BelowP20(percentile_20, price) ==
    percentile_20 # None /\ percentile_20 # 0 /\ price < percentile_20

PriceAnalyzer_analyze(tbl, listing) ==
    LET percentile_20 == get_price_percentile(tbl, listing.make, listing.year, GOOD_DEAL_PERCENTILE)
        market_avg == get_average_price(tbl, listing.make, listing.model, listing.year)
        similar == get_listings_by_make(tbl, listing.make,
                       IF listing.year # None /\ listing.year # 0 THEN listing.year - 1 ELSE None)
    IN [percentile_20 |-> percentile_20,
        market_average |-> market_avg,
        confidence |-> Confidence(Cardinality(similar)),
        is_below_market |-> BelowMarket(market_avg, listing.price_usd),
        is_good_deal |-> BelowP20(percentile_20, listing.price_usd)
                           \/ BelowMarket(market_avg, listing.price_usd)]

\* UrgencyDetector._detect_keywords finds something in the title.
DetectKeywords(title) == title = "BMW X5 urgent"

UrgencyScore_Exclusive(kw, flag, drop) ==
    IF kw THEN 5
    ELSE IF flag THEN 3
    ELSE IF DropBelow(drop, SIGNIFICANT_DROP_PERCENT)
         THEN (IF DropBelow(drop, MAJOR_DROP_PERCENT) THEN 4 ELSE 2)
         ELSE 0

UrgencyScore(kw, flag, drop) ==
    (IF kw THEN 5 ELSE 0) + (IF flag THEN 3 ELSE 0)
    + (IF DropBelow(drop, SIGNIFICANT_DROP_PERCENT)
       THEN (IF DropBelow(drop, MAJOR_DROP_PERCENT) THEN 4 ELSE 2)
       ELSE 0)

UrgencyDetector_analyze(hist, listing) ==
    LET drop == get_price_drop(hist, listing.id)
        score == UrgencyScore(DetectKeywords(listing.title), listing.is_urgent, drop)
    IN [urgency_score |-> score,
        has_price_drop |-> DropBelow(drop, SIGNIFICANT_DROP_PERCENT),
        is_urgent |-> score >= URGENT_THRESHOLD]


\* ============================================== AutoDealBot.scrape_and_notify
NoCarListing == [source |-> "", listing_id |-> "", make |-> "", model |-> "",
                 year |-> None, price_usd |-> 0, title |-> "", is_urgent |-> FALSE]
NoListing == [id |-> 0, source |-> "", listing_id |-> "", make |-> "", model |-> "",
              year |-> None, price_usd |-> 0, title |-> "", is_urgent |-> FALSE]
NoPriceAnalysis == [percentile_20 |-> None, market_average |-> [sum |-> 0, n |-> 0],
                    confidence |-> 0, is_below_market |-> FALSE, is_good_deal |-> FALSE]
NoUrgencyAnalysis == [urgency_score |-> 0, has_price_drop |-> FALSE, is_urgent |-> FALSE]
NoCur == [car_listing |-> NoCarListing, listing |-> NoListing, is_new |-> FALSE,
          previous_price |-> None, price_analysis |-> NoPriceAnalysis,
          urgency_analysis |-> NoUrgencyAnalysis]

\* The object upsert_listing returns: the row as committed, with its id.
ListingObject(r, row) ==
    [id |-> r, source |-> row.source, listing_id |-> row.listing_id, make |-> row.make,
     model |-> row.model, year |-> row.year, price_usd |-> row.price_usd,
     title |-> row.title, is_urgent |-> row.is_urgent]

Truthy(x) == x # None /\ x # 0

SignificantDrop_Strict(previous_price, price_usd) ==
    (previous_price - price_usd) * 100 > PRICE_DROP_NOTIFY_PERCENT * previous_price

\* ((previous_price - price_usd) / previous_price) * 100 >= 5
SignificantDrop(previous_price, price_usd) ==
    (previous_price - price_usd) * 100 >= PRICE_DROP_NOTIFY_PERCENT * previous_price

ShouldNotify_DropsOnly(is_new, previous_price, price_usd) ==
    Truthy(previous_price) /\ SignificantDrop(previous_price, price_usd)

\* Lines 194-214: should_notify.
ShouldNotify(is_new, previous_price, price_usd) ==
    IF is_new THEN TRUE
    ELSE IF Truthy(previous_price) THEN SignificantDrop(previous_price, price_usd)
    ELSE FALSE

\* Lines 199-214: the reason the gating step computes.
GateReason(is_new, price_analysis, urgency_analysis) ==
    IF is_new
    THEN IF price_analysis.is_good_deal THEN "good_price"
         ELSE IF urgency_analysis.is_urgent THEN "urgent"
         ELSE "new_listing"
    ELSE "price_drop"

\* Lines 235-241: the reason the dispatch step records; each later test
\* overwrites the earlier ones.
RecordReason(notification) ==
    IF Truthy(notification.previous_price) THEN "price_drop"
    ELSE IF notification.urgency_analysis.is_urgent THEN "urgent"
    ELSE IF notification.price_analysis.is_good_deal THEN "good_price"
    ELSE "new_listing"

NotificationData(c) ==
    [listing |-> c.listing, price_analysis |-> c.price_analysis,
     urgency_analysis |-> c.urgency_analysis, is_new |-> c.is_new,
     previous_price |-> c.previous_price]

\* Lines 146-152: the job starts.
BeginCycle ==
    /\ pc = "due"
    /\ stop_pc = "running"
    /\ scrape_count' = scrape_count + 1
    /\ pc' = "scrape"
    /\ UNCHANGED <<stop_pc, net, now, repo, notifications_sent, all_listings, cur,
                   notifications_to_send, j, message_id, events, outcomes, escaped,
                   scraper>>

\* `for car_listing in all_listings` takes its next element, or the loop
\* ends and the dispatch loop starts on the queue as it then is.
AfterListing(rest, queue) ==
    IF rest # <<>>
    THEN /\ pc' = "upsert"
         /\ cur' = [NoCur EXCEPT !.car_listing = Head(rest)]
         /\ all_listings' = Tail(rest)
         /\ j' = j
    ELSE /\ pc' = (IF queue = <<>> THEN "summary" ELSE "send")
         /\ cur' = NoCur
         /\ all_listings' = <<>>
         /\ j' = (IF queue = <<>> THEN 0 ELSE 1)

\* Lines 167-177: the listings scrape_listings returned become the batch and
\* the loop starts, whatever that batch is.
Scraped(batch) ==
    /\ pc = "scrape"
    /\ AfterListing(batch, <<>>)
    /\ UNCHANGED <<stop_pc, net, now, repo, scrape_count, notifications_sent,
                   notifications_to_send, message_id, events, outcomes, escaped, scraper>>

\* How the loop body ended for a listing: "raised" (the except of line 225),
\* "skipped" (the continue of line 186), "queued" or "passed" (the gating step).
Outcome(kind, c) ==
    [kind |-> kind, listing |-> c.listing.id, is_new |-> c.is_new,
     previous_price |-> c.previous_price, price_usd |-> c.car_listing.price_usd]

ListingRaised_Abort ==
    /\ outcomes' = Append(outcomes, Outcome("raised", cur))
    /\ pc' = "summary"
    /\ cur' = NoCur
    /\ all_listings' = <<>>
    /\ j' = j
    /\ UNCHANGED <<stop_pc, net, now, scrape_count, notifications_sent, notifications_to_send,
                   message_id, events, escaped, scraper>>

\* Line 225: except Exception around the loop body.
ListingRaised ==
    /\ outcomes' = Append(outcomes, Outcome("raised", cur))
    /\ AfterListing(all_listings, notifications_to_send)
    /\ UNCHANGED <<stop_pc, net, now, scrape_count, notifications_sent, notifications_to_send,
                   message_id, events, escaped, scraper>>

PriceChanged_Always(previous_price, data) == TRUE

\* Line 62: previous_price != listing_data.get("price_usd").
PriceChanged(previous_price, data) == previous_price # data.price_usd

\* upsert_listing, update branch (repository.py 53-72).
UpsertUpdate ==
    /\ pc = "upsert"
    /\ LET data == cur.car_listing
           existing == SelectListing(listings, data)
       IN /\ Cardinality(existing) = 1
          /\ LET r == CHOOSE x \in existing : TRUE
                 previous_price == listings[r].price_usd
                 row == UpdatedRow(listings[r], data)
             IN /\ listings' = [listings EXCEPT ![r] = row]
                /\ price_history' =
                       IF PriceChanged(previous_price, data)
                       THEN Append(price_history, PriceHistory(r, data.price_usd))
                       ELSE price_history
                /\ cur' = [cur EXCEPT !.listing = ListingObject(r, row),
                                      !.is_new = FALSE,
                                      !.previous_price = previous_price]
    /\ pc' = "dedup"
    /\ UNCHANGED <<stop_pc, net, now, sent_notifications, scrape_count, notifications_sent,
                   all_listings, notifications_to_send, j, message_id, events, outcomes,
                   escaped, scraper>>

\* upsert_listing, insert branch (repository.py 73-90).
UpsertInsert ==
    /\ pc = "upsert"
    /\ LET data == cur.car_listing
           row == ListingRow(data)
           r == Len(listings) + 1
       IN /\ SelectListing(listings, data) = {}
          /\ ~UniqueViolation(listings, row)
          /\ listings' = Append(listings, row)
          /\ price_history' = Append(price_history, PriceHistory(r, row.price_usd))
          /\ cur' = [cur EXCEPT !.listing = ListingObject(r, row),
                                !.is_new = TRUE,
                                !.previous_price = None]
    /\ pc' = "dedup"
    /\ UNCHANGED <<stop_pc, net, now, sent_notifications, scrape_count, notifications_sent,
                   all_listings, notifications_to_send, j, message_id, events, outcomes,
                   escaped, scraper>>

\* upsert_listing raises with nothing committed: the select or the only
\* commit failed, the select found several rows, or the insert hit the
\* unique index.
UpsertRaise ==
    /\ pc = "upsert"
    /\ UNCHANGED repo
    /\ ListingRaised

\* upsert_listing raises in the insert branch after the commit of line 77
\* and before the commit of line 88: the row is stored without its price.
UpsertInsertPartial ==
    /\ pc = "upsert"
    /\ LET data == cur.car_listing
           row == ListingRow(data)
       IN /\ SelectListing(listings, data) = {}
          /\ ~UniqueViolation(listings, row)
          /\ listings' = Append(listings, row)
    /\ UNCHANGED <<price_history, sent_notifications>>
    /\ ListingRaised

\* was_notification_sent returns True: continue (main.py 185-186).
DedupSkip ==
    /\ pc = "dedup"
    /\ Cardinality(RecentNotifications(sent_notifications, cur.listing.id, DEDUP_HOURS, now)) = 1
    /\ outcomes' = Append(outcomes, Outcome("skipped", cur))
    /\ AfterListing(all_listings, notifications_to_send)
    /\ UNCHANGED <<stop_pc, net, now, repo, scrape_count, notifications_sent,
                   notifications_to_send, message_id, events, escaped, scraper>>

DedupClear_Unchecked ==
    /\ pc = "dedup"
    /\ pc' = "price"
    /\ UNCHANGED <<stop_pc, net, now, repo, scrape_count, notifications_sent, all_listings, cur,
                   notifications_to_send, j, message_id, events, outcomes, escaped,
                   scraper>>

\* was_notification_sent returns False.
DedupClear ==
    /\ pc = "dedup"
    /\ RecentNotifications(sent_notifications, cur.listing.id, DEDUP_HOURS, now) = {}
    /\ pc' = "price"
    /\ UNCHANGED <<stop_pc, net, now, repo, scrape_count, notifications_sent, all_listings, cur,
                   notifications_to_send, j, message_id, events, outcomes, escaped,
                   scraper>>

\* was_notification_sent raises: the query failed, or scalar_one_or_none
\* found more than one row in the window.
DedupRaise ==
    /\ pc = "dedup"
    /\ UNCHANGED repo
    /\ ListingRaised

\* price_analyzer.analyze (main.py 189).
AnalyzePrice ==
    /\ pc = "price"
    /\ cur' = [cur EXCEPT !.price_analysis = PriceAnalyzer_analyze(listings, cur.listing)]
    /\ pc' = "urgency"
    /\ UNCHANGED <<stop_pc, net, now, repo, scrape_count, notifications_sent, all_listings,
                   notifications_to_send, j, message_id, events, outcomes, escaped,
                   scraper>>

AnalyzePriceRaise ==
    /\ pc = "price"
    /\ UNCHANGED repo
    /\ ListingRaised

\* urgency_detector.analyze (main.py 192).
AnalyzeUrgency ==
    /\ pc = "urgency"
    /\ cur' = [cur EXCEPT !.urgency_analysis =
                              UrgencyDetector_analyze(price_history, cur.listing)]
    /\ pc' = "gate"
    /\ UNCHANGED <<stop_pc, net, now, repo, scrape_count, notifications_sent, all_listings,
                   notifications_to_send, j, message_id, events, outcomes, escaped,
                   scraper>>

AnalyzeUrgencyRaise ==
    /\ pc = "urgency"
    /\ UNCHANGED repo
    /\ ListingRaised

\* The gating step (main.py 194-223).
Gate ==
    /\ pc = "gate"
    /\ LET should_notify == ShouldNotify(cur.is_new, cur.previous_price, cur.listing.price_usd)
           queue == IF should_notify
                    THEN Append(notifications_to_send, NotificationData(cur))
                    ELSE notifications_to_send
       IN /\ notifications_to_send' = queue
          /\ outcomes' = Append(outcomes,
                 Outcome(IF should_notify THEN "queued" ELSE "passed", cur))
          /\ AfterListing(all_listings, queue)
    /\ UNCHANGED <<stop_pc, net, now, repo, scrape_count, notifications_sent, message_id, events,
                   escaped, scraper>>

\* Where the dispatch loop goes after notification j.
AfterNotification ==
    IF j < Len(notifications_to_send)
    THEN /\ pc' = "send"
         /\ j' = j + 1
    ELSE /\ pc' = "summary"
         /\ j' = j

AfterSend_Always(mid) == "record"

\* Line 233: `if message_id:` guards the recording block.
AfterSend(mid) == IF Truthy(mid) THEN "record" ELSE "sleep"

\* telegram_bot.send_notification returns a message id (main.py 231).
SendOk ==
    /\ pc = "send"
    /\ message_id' = 1
    /\ events' = Append(events, [op |-> "send", n |-> j, ok |-> TRUE])
    /\ pc' = AfterSend(1)
    /\ UNCHANGED <<stop_pc, net, now, repo, scrape_count, notifications_sent, all_listings, cur,
                   notifications_to_send, j, outcomes, escaped, scraper>>

\* send_notification caught a failure of the sink and returns None
\* (telegram_bot.py 116-118); the `if message_id` block is skipped.
SendFail ==
    /\ pc = "send"
    /\ message_id' = None
    /\ events' = Append(events, [op |-> "send", n |-> j, ok |-> FALSE])
    /\ pc' = AfterSend(None)
    /\ UNCHANGED <<stop_pc, net, now, repo, scrape_count, notifications_sent, all_listings, cur,
                   notifications_to_send, j, outcomes, escaped, scraper>>

\* record_notification (main.py 233-249, repository.py 233-247).
Record ==
    /\ pc = "record"
    /\ LET notification == notifications_to_send[j]
       IN sent_notifications' =
              Append(sent_notifications,
                     SentNotification(notification.listing.id, RecordReason(notification), now))
    /\ notifications_sent' = notifications_sent + 1
    /\ events' = Append(events, [op |-> "record", n |-> j, ok |-> TRUE])
    /\ pc' = "sleep"
    /\ UNCHANGED <<stop_pc, net, now, listings, price_history, scrape_count, all_listings, cur,
                   notifications_to_send, j, message_id, outcomes, escaped, scraper>>

\* record_notification raises: the except of line 254 is reached and the
\* sleep of line 252 is not.
RecordRaise ==
    /\ pc = "record"
    /\ events' = Append(events, [op |-> "record", n |-> j, ok |-> FALSE])
    /\ AfterNotification
    /\ UNCHANGED <<stop_pc, net, now, repo, scrape_count, notifications_sent, all_listings, cur,
                   notifications_to_send, message_id, outcomes, escaped, scraper>>

\* asyncio.sleep(1) (main.py 252).
Sleep ==
    /\ pc = "sleep"
    /\ events' = Append(events, [op |-> "sleep", n |-> j, ok |-> TRUE])
    /\ AfterNotification
    /\ UNCHANGED <<stop_pc, net, now, repo, scrape_count, notifications_sent, all_listings, cur,
                   notifications_to_send, message_id, outcomes, escaped, scraper>>

\* Lines 257-262: the job returns to the scheduler and its locals are gone.
Summary ==
    /\ pc = "summary"
    /\ pc' = "idle"
    /\ notifications_to_send' = <<>>
    /\ j' = 0
    /\ message_id' = None
    /\ events' = <<>>
    /\ outcomes' = <<>>
    /\ site' = <<>>
    /\ slog' = <<>>
    /\ UNCHANGED <<stop_pc, net, now, repo, scrape_count, notifications_sent, all_listings, cur,
                   escaped, spc, target, page_num, attempt, scraped>>

\* IntervalTrigger: the scheduler waits for the next run of the job.
Wait(d) ==
    /\ pc = "idle"
    /\ stop_pc = "running"
    /\ scrape_count < MaxCycles
    /\ now' = now + d
    /\ UNCHANGED <<stop_pc, net>>
    /\ pc' = "due"
    /\ UNCHANGED <<repo, scrape_count, notifications_sent, all_listings, cur,
                   notifications_to_send, j, message_id, events, outcomes, escaped,
                   scraper>>

\* ------------------------------------------------------------ ProxyManager
\* Coroutines that use one ProxyManager.
Coros == {"c1", "c2"}

\* Proxy: host, port and the two counters; protocol is always "http".
Proxy(host, port) ==
    [host |-> host, port |-> port, success_count |-> 0, fail_count |-> 0]

\* Proxy.url: protocol://host:port.
Url(proxy) == [protocol |-> "http", host |-> proxy.host, port |-> proxy.port]

\* No proxy URL: the None of get_proxy and of current_proxy, and a browser
\* launched without a proxy.
NoProxy == [protocol |-> "", host |-> "", port |-> 0]

\* The proxies the list sources can name.
ProxyA == Proxy("10.0.0.1", 8080)
ProxyB == Proxy("10.0.0.2", 3128)
Urls == {Url(ProxyA), Url(ProxyB)}

\* What one source can answer: a list of proxies, or an exception.
SourceResults ==
    {[ok |-> FALSE, proxies |-> <<>>],
     [ok |-> TRUE, proxies |-> <<ProxyA, ProxyB>>],
     [ok |-> TRUE, proxies |-> <<ProxyB>>]}

\* What the validation request of one candidate can end in.
Responses == {"200", "status", "raise"}

\* Minutes the clock of a ProxyManager run advances at once.
PoolElapse == {15, 16}

\* Proxy.success_rate as a fraction: 0.5 while nothing was counted.
RateNum(proxy) ==
    IF proxy.success_count + proxy.fail_count = 0 THEN 1 ELSE proxy.success_count

RateDen(proxy) ==
    IF proxy.success_count + proxy.fail_count = 0
    THEN 2
    ELSE proxy.success_count + proxy.fail_count

\* a.success_rate >= b.success_rate
RateGE(a, b) == RateNum(a) * RateDen(b) >= RateNum(b) * RateDen(a)

BelowMinRate_Inclusive(proxy) == 10 * RateNum(proxy) <= MIN_SUCCESS_RATE * RateDen(proxy)

\* proxy.success_rate < 0.2
BelowMinRate(proxy) == 10 * RateNum(proxy) < MIN_SUCCESS_RATE * RateDen(proxy)

ShouldRefresh_AtInterval ==
    \/ last_refresh = None
    \/ pnow - last_refresh >= refresh_interval
    \/ Len(proxies) < min_pool_size

\* _should_refresh
ShouldRefresh ==
    \/ last_refresh = None
    \/ pnow - last_refresh > refresh_interval
    \/ Len(proxies) < min_pool_size

\* Lines 89-96: the first proxy of each host:port key, in order.
RECURSIVE Unique(_, _)
Unique(list, seen) ==
    IF list = <<>>
    THEN <<>>
    ELSE LET key == <<Head(list).host, Head(list).port>>
         IN IF key \in seen
            THEN Unique(Tail(list), seen)
            ELSE <<Head(list)>> \o Unique(Tail(list), seen \cup {key})

\* _test_proxy: status 200 counts a success and passes, an exception counts
\* a failure, any other status counts nothing; only 200 passes.
Tested(proxy, response) ==
    CASE response = "200" -> [proxy EXCEPT !.success_count = @ + 1]
      [] response = "raise" -> [proxy EXCEPT !.fail_count = @ + 1]
      [] OTHER -> proxy

Passed_NoRaise(response) == response # "raise"

\* _test_proxy returns True: `if response.status == 200`.
Passed(response) == response = "200"

\* _validate_proxies: the candidates whose test passed, in their order.
RECURSIVE Validated(_, _)
Validated(list, test) ==
    IF list = <<>>
    THEN <<>>
    ELSE LET proxy == Head(list)
             response == test[Url(proxy)]
         IN (IF Passed(response) THEN <<Tested(proxy, response)>> ELSE <<>>)
            \o Validated(Tail(list), test)

\* sorted(..., key=success_rate, reverse=True): stable, so proxies of equal
\* rate keep their order.
RECURSIVE Insert(_, _)
Insert(sorted, proxy) ==
    IF sorted = <<>>
    THEN <<proxy>>
    ELSE IF RateGE(Head(sorted), proxy)
         THEN <<Head(sorted)>> \o Insert(Tail(sorted), proxy)
         ELSE <<proxy>> \o sorted

RECURSIVE SortedByRate(_)
SortedByRate(list) ==
    IF list = <<>>
    THEN <<>>
    ELSE Insert(SortedByRate(SubSeq(list, 1, Len(list) - 1)), list[Len(list)])

TopHalf_All(list) == Len(list)

\* max(1, len(sorted_proxies) // 2)
TopHalf(list) == IF Len(list) \div 2 >= 1 THEN Len(list) \div 2 ELSE 1

\* Lines 210-224 of get_proxy: what it can return from a pool.
Selection(list) ==
    IF list = <<>>
    THEN {NoProxy}
    ELSE {Url(SortedByRate(list)[i]) : i \in 1..TopHalf(list)}

\* Index of the first pooled proxy with the URL, or 0.
IndexOf(list, url) ==
    IF \E i \in DOMAIN list : Url(list[i]) = url
    THEN CHOOSE i \in DOMAIN list :
             /\ Url(list[i]) = url
             /\ \A k \in 1..(i - 1) : Url(list[k]) # url
    ELSE 0

Remove(list, i) == SubSeq(list, 1, i - 1) \o SubSeq(list, i + 1, Len(list))

\* mark_proxy_failed: the pool after the call.
mark_proxy_failed(list, url) ==
    LET i == IndexOf(list, url)
    IN IF i = 0
       THEN list
       ELSE LET proxy == [list[i] EXCEPT !.fail_count = @ + 1]
            IN IF BelowMinRate(proxy)
               THEN Remove(list, i)
               ELSE [list EXCEPT ![i] = proxy]

\* The URL the call of mark_proxy_failed removes from the pool, if any.
Evictions(list, url) ==
    IF IndexOf(list, url) # 0 /\ IndexOf(mark_proxy_failed(list, url), url) = 0
    THEN {url}
    ELSE {}

\* A get_proxy call begins: it is the next call for every URL removed since
\* the call before it began.
Called(c) == [evicted EXCEPT ![c] = evicted["next"], !["next"] = {}]

\* mark_proxy_success: the pool after the call.
mark_proxy_success(list, url) ==
    LET i == IndexOf(list, url)
    IN IF i = 0
       THEN list
       ELSE [list EXCEPT ![i].success_count = @ + 1]

LockFree_Always == TRUE

\* asyncio.Lock.acquire returns at once while the lock is not held and
\* nobody waits for it.
LockFree == lock.holder = "free" /\ lock.waiters = <<>>

\* Lines 74-80: refresh_proxies is entered; `async with self._lock` takes
\* the lock at once and the fetch loop starts, or the coroutine waits.
StartRefresh(c) ==
    IF LockFree
    THEN /\ lock' = [lock EXCEPT !.holder = c]
         /\ ppc' = [ppc EXCEPT ![c] = "fetch"]
         /\ source' = [source EXCEPT ![c] = 1]
         /\ all_proxies' = [all_proxies EXCEPT ![c] = <<>>]
    ELSE /\ lock' = [lock EXCEPT !.waiters = Append(@, c)]
         /\ ppc' = [ppc EXCEPT ![c] = "lock"]
         /\ UNCHANGED <<source, all_proxies>>

\* A coroutine calls get_proxy and _should_refresh says yes: it awaits
\* refresh_proxies.
GetProxyRefresh(c) ==
    /\ ppc[c] = "idle"
    /\ calls < MaxCalls
    /\ ShouldRefresh
    /\ calls' = calls + 1
    /\ by_get' = [by_get EXCEPT ![c] = TRUE]
    /\ StartRefresh(c)
    /\ evicted' = Called(c)
    /\ UNCHANGED <<stop_pc, now, repo, cycle, scraper, fetcher, proxies, last_refresh, pnow,
                   selected>>

\* A coroutine calls get_proxy and _should_refresh says no: it selects at once.
GetProxySelect(c) ==
    /\ ppc[c] = "idle"
    /\ calls < MaxCalls
    /\ ~ShouldRefresh
    /\ calls' = calls + 1
    /\ ppc' = [ppc EXCEPT ![c] = "got"]
    /\ \E url \in Selection(proxies) : selected' = [selected EXCEPT ![c] = url]
    /\ evicted' = [evicted EXCEPT !["next"] = {}]
    /\ UNCHANGED <<stop_pc, now, repo, cycle, scraper, fetcher, proxies, last_refresh, lock,
                   pnow, by_get, source, all_proxies>>

\* refresh_proxies is called on its own: the scheduler's proxy_refresh job,
\* or initialize.
RefreshCall(c) ==
    /\ ppc[c] = "idle"
    /\ calls < MaxCalls
    /\ calls' = calls + 1
    /\ by_get' = [by_get EXCEPT ![c] = FALSE]
    /\ StartRefresh(c)
    /\ UNCHANGED <<stop_pc, evicted, now, repo, cycle, scraper, fetcher, proxies, last_refresh, pnow,
                   selected>>

\* Line 76 for a coroutine that waited: the lock was released and it is the
\* first of the waiters; the fetch loop starts.
Acquire(c) ==
    /\ ppc[c] = "lock"
    /\ lock.holder = "free"
    /\ Head(lock.waiters) = c
    /\ lock' = [holder |-> c, waiters |-> Tail(lock.waiters)]
    /\ ppc' = [ppc EXCEPT ![c] = "fetch"]
    /\ source' = [source EXCEPT ![c] = 1]
    /\ all_proxies' = [all_proxies EXCEPT ![c] = <<>>]
    /\ UNCHANGED <<stop_pc, evicted, now, repo, cycle, scraper, fetcher, proxies, last_refresh, pnow,
                   by_get, selected, calls>>

\* Lines 81-87: one source is fetched; its proxies are added, or its
\* exception is logged and the loop goes on.
FetchFromSource(c, r) ==
    /\ ppc[c] = "fetch"
    /\ all_proxies' = [all_proxies EXCEPT
                          ![c] = IF r.ok THEN @ \o r.proxies ELSE @]
    /\ IF source[c] < NumSources
       THEN /\ source' = [source EXCEPT ![c] = @ + 1]
            /\ ppc' = ppc
       ELSE /\ source' = source
            /\ ppc' = [ppc EXCEPT ![c] = "validate"]
    /\ UNCHANGED <<stop_pc, evicted, now, repo, cycle, scraper, fetcher, proxies, last_refresh, lock,
                   pnow, by_get, selected, calls>>

\* Line 103: self._proxies = validated.
Swapped(old, validated) == validated

\* Lines 89-107: the candidates are deduplicated and validated (test gives
\* the answer to each one's request), the pool, the working set and the
\* refresh time are replaced and the lock is released.  No await lies
\* between the end of the validation and the return of refresh_proxies, nor
\* between that return and the selection of a get_proxy that called it.
ValidateAndSwap(c, test) ==
    /\ ppc[c] = "validate"
    /\ LET validated == Validated(Unique(all_proxies[c], {}), test)
           after == Swapped(proxies, validated)
       IN /\ proxies' = after
          /\ IF by_get[c]
             THEN /\ ppc' = [ppc EXCEPT ![c] = "got"]
                  /\ \E url \in Selection(after) :
                         selected' = [selected EXCEPT ![c] = url]
             ELSE /\ ppc' = [ppc EXCEPT ![c] = "idle"]
                  /\ selected' = selected
    /\ last_refresh' = pnow
    /\ lock' = [lock EXCEPT !.holder = "free"]
    /\ source' = [source EXCEPT ![c] = 0]
    /\ all_proxies' = [all_proxies EXCEPT ![c] = <<>>]
    /\ evicted' = [evicted EXCEPT ![c] = {}]
    /\ UNCHANGED <<stop_pc, now, repo, cycle, scraper, fetcher, pnow, by_get, calls>>

\* The caller of get_proxy has its answer and goes on.
GetProxyReturn(c) ==
    /\ ppc[c] = "got"
    /\ ~(c = "c1" /\ spc = "proxy")
    /\ ppc' = [ppc EXCEPT ![c] = "idle"]
    /\ UNCHANGED <<stop_pc, evicted, now, repo, cycle, scraper, fetcher, proxies, last_refresh, lock,
                   pnow, by_get, source, all_proxies, selected, calls>>

\* A coroutine calls mark_proxy_failed.
MarkFailed(c, url) ==
    /\ ppc[c] = "idle"
    /\ \A i \in DOMAIN proxies : proxies[i].fail_count < MaxFails
    /\ proxies' = mark_proxy_failed(proxies, url)
    /\ evicted' = [evicted EXCEPT !["next"] = @ \cup Evictions(proxies, url)]
    /\ UNCHANGED <<stop_pc, now, repo, cycle, scraper, fetcher, last_refresh, lock, pnow, ppc,
                   by_get, source, all_proxies, selected, calls>>

\* A coroutine calls mark_proxy_success.
MarkSuccess(c, url) ==
    /\ ppc[c] = "idle"
    /\ \A i \in DOMAIN proxies : proxies[i].success_count < MaxSuccesses
    /\ proxies' = mark_proxy_success(proxies, url)
    /\ UNCHANGED <<stop_pc, evicted, now, repo, cycle, scraper, fetcher, last_refresh, lock, pnow, ppc,
                   by_get, source, all_proxies, selected, calls>>

\* Time passes for the ProxyManager.
Tick(d) ==
    /\ pnow + d <= MaxMinutes
    /\ pnow' = pnow + d
    /\ UNCHANGED <<stop_pc, evicted, now, repo, cycle, scraper, fetcher, proxies, last_refresh, lock,
                   ppc, by_get, source, all_proxies, selected, calls>>

\* ------------------------------------------------------- the scrape phase
\* Settings declares these fields (config.py); reading any other attribute of
\* a Settings object raises AttributeError.
SettingsFields ==
    {"telegram_bot_token", "telegram_chat_id", "scrape_interval_minutes",
     "request_delay_min", "request_delay_max", "proxy_refresh_minutes",
     "min_proxy_pool_size", "min_year", "max_price_usd", "database_url"}

\* Parameters scrape_listings accepts besides self; a call with any other
\* keyword raises TypeError.
ScrapeListingsParams == {"min_year", "max_price_usd", "max_pages"}

\* The call of lines 161-166: the keywords it passes and the settings it reads.
CallKeywords == {"brands", "min_year", "max_price_usd", "max_pages"}
SettingsRead == {"target_brands", "min_year", "max_price_usd"}

CallRaises ==
    \/ ~(SettingsRead \subseteq SettingsFields)
    \/ ~(CallKeywords \subseteq ScrapeListingsParams)

\* Names bound where line 106 of list_am.py is evaluated: the locals of
\* scrape_listings and the globals of the module.  Reading any other name
\* raises NameError.
NamesInScope ==
    {"self", "min_year", "max_price_usd", "max_pages", "all_listings", "car_name",
     "brand_id", "model_id", "base_url", "page_num", "url", "page", "content",
     "soup", "listing_elements", "element"}
    \cup {"re", "logging", "List", "Optional", "Any", "urlencode", "BeautifulSoup",
          "BaseScraper", "CarListing", "ProxyManager", "URGENCY_KEYWORDS",
          "TARGET_CARS", "logger", "ListAmScraper"}

\* The names `await self.parse_listing_element(element, brand)` reads.
ParseCallNames == {"self", "element", "brand"}

ParseCallRaises == ~(ParseCallNames \subseteq NamesInScope)

\* rates of _convert_to_usd: USD 1.0, AMD 0.0025, GEL 0.37, any other 1.0.
_convert_to_usd(amount, currency) ==
    CASE currency = "AMD" -> amount \div 400
      [] currency = "GEL" -> (amount * 37) \div 100
      [] OTHER -> amount

parse_listing_element(element) ==
    IF ~element.href_item
    THEN NoCarListing
    ELSE CarListing(element.listing_id,
                    _convert_to_usd(element.amount, element.currency),
                    element.title)

\* Lines 104-112: each element is parsed; a call that raises is logged and
\* the element is left out, a parse that returns None adds nothing.
RECURSIVE ParseElements(_)
ParseElements(elements) ==
    IF elements = <<>>
    THEN <<>>
    ELSE LET added == IF ParseCallRaises
                      THEN <<>>
                      ELSE LET listing == parse_listing_element(Head(elements))
                           IN IF listing = NoCarListing THEN <<>> ELSE <<listing>>
         IN added \o ParseElements(Tail(elements))

LogEntry(op, ok, n) ==
    [op |-> op, target |-> target, page |-> page_num, ok |-> ok, n |-> n]

ScrapeRaised_Propagates ==
    /\ escaped' = TRUE
    /\ pc' = "idle"
    /\ spc' = "idle"
    /\ target' = 0
    /\ page_num' = 0
    /\ attempt' = 0
    /\ scraped' = <<>>
    /\ UNCHANGED <<stop_pc, net, now, repo, scrape_count, notifications_sent, all_listings, cur,
                   notifications_to_send, j, message_id, events, outcomes, site, slog>>

\* main.py lines 169-170: an exception of the scrape phase has left the
\* `async with` (the scraper is stopped on the way out) and is logged;
\* all_listings is still empty and the job goes on to the listing loop.
ScrapeRaised ==
    /\ slog' = Append(slog, LogEntry("error", FALSE, 0))
    /\ spc' = "idle"
    /\ target' = 0
    /\ page_num' = 0
    /\ attempt' = 0
    /\ scraped' = <<>>
    /\ AfterListing(<<>>, <<>>)
    /\ UNCHANGED <<stop_pc, net, now, repo, scrape_count, notifications_sent,
                   notifications_to_send, message_id, events, outcomes, escaped, site>>

\* main.py lines 156-160: the scraper is built and started; s is what the
\* site serves while it runs.
ScraperEnter(s) ==
    /\ pc = "scrape"
    /\ pc' = "call"
    /\ site' = s
    /\ slog' = <<LogEntry("start", TRUE, 0)>>
    /\ UNCHANGED <<stop_pc, net, now, repo, scrape_count, notifications_sent, all_listings, cur,
                   notifications_to_send, j, message_id, events, outcomes, escaped,
                   spc, target, page_num, attempt, scraped>>

\* BaseScraper.start raises (playwright or the browser does not start).
ScraperEnterRaise ==
    /\ pc = "scrape"
    /\ ScrapeRaised

\* main.py lines 161-166: the arguments are evaluated and scrape_listings is
\* called.
ScrapeCall ==
    /\ pc = "call"
    /\ IF CallRaises
       THEN ScrapeRaised
       ELSE /\ pc' = "scraping"
            /\ spc' = "start"
            /\ UNCHANGED <<stop_pc, net, now, repo, scrape_count, notifications_sent, all_listings,
                           cur, notifications_to_send, j, message_id, events, outcomes,
                           escaped, site, target, page_num, attempt, scraped, slog>>

\* list_am.py lines 68-74: scrape_listings starts on the first target.
ScrapeListings ==
    /\ spc = "start"
    /\ scraped' = <<>>
    /\ target' = 1
    /\ page_num' = 1
    /\ attempt' = 0
    /\ spc' = "fetch"
    /\ UNCHANGED <<stop_pc, net, now, repo, cycle, site, slog>>

\* BaseScraper was given a ProxyManager (its coroutine is "c1").
HasProxyManager == ppc["c1"] # "off"

\* A browser that was closed and could not be launched again.
Closed == [protocol |-> "closed", host |-> "", port |-> 0]

RECURSIVE Pow2(_)
Pow2(n) == IF n = 0 THEN 1 ELSE 2 * Pow2(n - 1)

\* Line 170 is false: the attempt goes straight to _create_page and goto;
\* or the proxy of the attempt has been dealt with.
AtLoad ==
    \/ spc = "load"
    \/ spc = "fetch" /\ ~(HasProxyManager /\ attempt > 0)

\* The sleeps of this _fetch_page call so far.
Backoffs == IF attempt = 0 THEN <<>> ELSE backoffs

Backoff_Always(k) == TRUE

\* Line 207: attempt < self.max_retries - 1.
Backoff(k) == k < max_retries - 1

AttemptFailed_Raises ==
    /\ IF attempt < max_retries - 1
       THEN /\ attempt' = attempt + 1
            /\ spc' = "fetch"
            /\ UNCHANGED <<slog, current_proxy>>
       ELSE /\ attempt' = 0
            /\ slog' = slog
            /\ spc' = "raised"
            /\ current_proxy' = NoProxy
    /\ backoffs' = IF Backoff(attempt)
                   THEN Append(Backoffs, Pow2(attempt))
                   ELSE Backoffs

\* Lines 206-211 after a failed attempt: the backoff sleep and the next
\* attempt, or, after max_retries attempts, `return None`, which
\* scrape_listings logs and answers with `break` (list_am.py lines 85-87).
AttemptFailed ==
    /\ IF attempt < max_retries - 1
       THEN /\ attempt' = attempt + 1
            /\ spc' = "fetch"
            /\ UNCHANGED <<slog, current_proxy>>
       ELSE /\ attempt' = 0
            /\ slog' = Append(slog, LogEntry("fetch", FALSE, attempt))
            /\ spc' = "model_delay"
            /\ current_proxy' = NoProxy
    /\ backoffs' = IF Backoff(attempt)
                   THEN Append(Backoffs, Pow2(attempt))
                   ELSE Backoffs

\* Lines 170-172 on a retry, _should_refresh true: get_proxy awaits
\* refresh_proxies.
FetchAskRefresh ==
    /\ spc = "fetch"
    /\ HasProxyManager
    /\ attempt > 0
    /\ ShouldRefresh
    /\ spc' = "proxy"
    /\ by_get' = [by_get EXCEPT !["c1"] = TRUE]
    /\ StartRefresh("c1")
    /\ evicted' = Called("c1")
    /\ UNCHANGED <<stop_pc, now, repo, cycle, site, target, page_num, attempt, scraped, slog,
                   fetcher, proxies, last_refresh, pnow, selected, calls>>

\* Lines 170-172 on a retry, _should_refresh false: get_proxy selects.
FetchAskSelect ==
    /\ spc = "fetch"
    /\ HasProxyManager
    /\ attempt > 0
    /\ ~ShouldRefresh
    /\ spc' = "proxy"
    /\ ppc' = [ppc EXCEPT !["c1"] = "got"]
    /\ \E url \in Selection(proxies) : selected' = [selected EXCEPT !["c1"] = url]
    /\ evicted' = [evicted EXCEPT !["next"] = {}]
    /\ UNCHANGED <<stop_pc, now, repo, cycle, site, target, page_num, attempt, scraped, slog,
                   fetcher, proxies, last_refresh, lock, pnow, by_get, source,
                   all_proxies, calls>>

\* Lines 173-176 and 128-131: the browser is launched again only for a
\* proxy, and is then bound to it.
Relaunched(url, old) == IF url # NoProxy THEN url ELSE old

\* Line 172: get_proxy has returned and its result is current_proxy.
FetchGotProxy ==
    /\ spc = "proxy"
    /\ ppc["c1"] = "got"
    /\ current_proxy' = selected["c1"]
    /\ ppc' = [ppc EXCEPT !["c1"] = "scraper"]
    /\ spc' = "relaunch"
    /\ UNCHANGED <<stop_pc, evicted, now, repo, cycle, site, target, page_num, attempt, scraped,
                   slog, browser, backoffs, proxies, last_refresh, lock, pnow, by_get,
                   source, all_proxies, selected, calls>>

\* Lines 173-176: with a proxy the browser is closed and launched bound to
\* it; without one the browser stays as it is.
FetchRelaunch ==
    /\ spc = "relaunch"
    /\ browser' = Relaunched(current_proxy, browser)
    /\ spc' = "load"
    /\ UNCHANGED <<stop_pc, now, repo, cycle, site, target, page_num, attempt, scraped, slog,
                   current_proxy, backoffs, pool>>

\* Lines 175-176 raise (the launch with the proxy fails): lines 198-211 mark
\* the proxy failed.
RelaunchRaise ==
    /\ spc = "relaunch"
    /\ current_proxy # NoProxy
    /\ browser' = Closed
    /\ proxies' = mark_proxy_failed(proxies, current_proxy)
    /\ evicted' = [evicted EXCEPT !["next"] = @ \cup Evictions(proxies, current_proxy)]
    /\ AttemptFailed
    /\ UNCHANGED <<stop_pc, now, repo, cycle, site, target, page_num, scraped, last_refresh,
                   lock, pnow, ppc, by_get, source, all_proxies, selected, calls>>

\* Lines 178-193: the attempt gets status 200 and the selector: the proxy of
\* the attempt is marked successful and the page is returned.
FetchOk ==
    /\ AtLoad
    /\ browser # Closed
    /\ proxies' = IF current_proxy # NoProxy
                  THEN mark_proxy_success(proxies, current_proxy)
                  ELSE proxies
    /\ slog' = Append(slog, LogEntry("fetch", TRUE, attempt))
    /\ attempt' = 0
    /\ spc' = "parse"
    /\ current_proxy' = NoProxy
    /\ backoffs' = Backoffs
    /\ UNCHANGED <<stop_pc, evicted, now, repo, cycle, site, target, page_num, scraped, browser,
                   last_refresh, lock, pnow, ppc, by_get, source, all_proxies,
                   selected, calls>>

\* Lines 178-196 and 206-211: the attempt gets another status: the page is
\* closed and no proxy is marked.
FetchBadStatus ==
    /\ AtLoad
    /\ browser # Closed
    /\ AttemptFailed
    /\ UNCHANGED <<stop_pc, now, repo, cycle, site, target, page_num, scraped, browser, pool>>

\* Lines 178-187 raise (new_context, goto or wait_for_selector, a timeout
\* included): lines 198-211 mark the proxy of the attempt failed.
FetchRaise ==
    /\ AtLoad
    /\ proxies' = IF current_proxy # NoProxy
                  THEN mark_proxy_failed(proxies, current_proxy)
                  ELSE proxies
    /\ AttemptFailed
    /\ evicted' = [evicted EXCEPT !["next"] =
                      @ \cup IF current_proxy # NoProxy
                             THEN Evictions(proxies, current_proxy)
                             ELSE {}]
    /\ UNCHANGED <<stop_pc, now, repo, cycle, site, target, page_num, scraped, browser,
                   last_refresh, lock, pnow, ppc, by_get, source, all_proxies,
                   selected, calls>>

\* list_am.py lines 89-115: the elements of the page are parsed and the page
\* is closed; a page without elements ends the pages of the target.
ParsePage ==
    /\ spc = "parse"
    /\ LET elements == site[target][page_num]
           parsed == ParseElements(elements)
       IN /\ slog' = Append(slog, LogEntry("page", elements # <<>>, Len(parsed)))
          /\ scraped' = scraped \o parsed
          /\ spc' = IF elements = <<>> \/ page_num >= MaxPages
                    THEN "model_delay"
                    ELSE "page_delay"
    /\ UNCHANGED <<stop_pc, net, now, repo, cycle, site, target, page_num, attempt>>

\* page.content() raises: the page is closed (finally) and the exception
\* leaves scrape_listings.
ContentRaise ==
    /\ spc = "parse"
    /\ IF pc = "scraping"
       THEN ScrapeRaised
       ELSE /\ spc' = "raised"
            /\ UNCHANGED <<stop_pc, net, now, repo, cycle, site, target, page_num, attempt,
                           scraped, slog>>

\* What random.uniform(delay_min, delay_max) can give, in seconds: the two
\* ends of the interval.
Delays == {delay_min, delay_max}

RandomDelay_Skipped(d) == slog' = slog

\* _random_delay: asyncio.sleep(delay).
RandomDelay(d) == slog' = Append(slog, LogEntry("delay", TRUE, d))

\* list_am.py lines 118-119: the delay between two pages.
PageDelay ==
    /\ spc = "page_delay"
    /\ \E d \in Delays : RandomDelay(d)
    /\ page_num' = page_num + 1
    /\ spc' = "fetch"
    /\ UNCHANGED <<stop_pc, net, now, repo, cycle, site, target, attempt, scraped>>

\* list_am.py lines 121-125: the delay after a target; the next target
\* follows, or scrape_listings returns what it collected (to line 167 of
\* main.py when the job called it).
ModelDelay ==
    /\ spc = "model_delay"
    /\ \E d \in Delays : RandomDelay(d)
    /\ IF target < NumTargets
       THEN /\ target' = target + 1
            /\ page_num' = 1
            /\ spc' = "fetch"
            /\ UNCHANGED <<pc, cur, all_listings, j, scraped>>
       ELSE IF pc = "scraping"
            THEN /\ AfterListing(scraped, <<>>)
                 /\ spc' = "idle"
                 /\ target' = 0
                 /\ page_num' = 0
                 /\ scraped' = <<>>
            ELSE /\ spc' = "returned"
                 /\ UNCHANGED <<pc, cur, all_listings, j, target, page_num, scraped>>
    /\ UNCHANGED <<stop_pc, net, now, repo, scrape_count, notifications_sent,
                   notifications_to_send, message_id, events, outcomes, escaped,
                   site, attempt>>

\* AutoDealBot.__init__ and start: an empty database, the scrape job due at
\* once (next_run_time = now).
InitBot ==
    /\ now = 0
    /\ listings = <<>>
    /\ price_history = <<>>
    /\ sent_notifications = <<>>
    /\ scrape_count = 0
    /\ notifications_sent = 0
    /\ pc = "due"
    /\ all_listings = <<>>
    /\ cur = NoCur
    /\ notifications_to_send = <<>>
    /\ j = 0
    /\ message_id = None
    /\ events = <<>>
    /\ outcomes = <<>>
    /\ escaped = FALSE
    /\ site = <<>>
    /\ spc = "idle"
    /\ target = 0
    /\ page_num = 0
    /\ attempt = 0
    /\ scraped = <<>>
    /\ slog = <<>>
    /\ proxies = <<>>
    /\ last_refresh = None
    /\ lock = [holder |-> "free", waiters |-> <<>>]
    /\ pnow = 0
    /\ ppc = [c \in Coros |-> "off"]
    /\ by_get = [c \in Coros |-> FALSE]
    /\ source = [c \in Coros |-> 0]
    /\ all_proxies = [c \in Coros |-> <<>>]
    /\ selected = [c \in Coros |-> NoProxy]
    /\ calls = 0
    /\ evicted = [c \in Coros \cup {"next"} |-> {}]
    /\ current_proxy = NoProxy
    /\ browser = NoProxy
    /\ backoffs = <<>>
    /\ stop_pc = "running"

\* A ListAmScraper started on its own (`async with ListAmScraper() as s`)
\* whose scrape_listings is called with max_pages = MaxPages; no bot runs.
InitScraper ==
    /\ now = 0
    /\ listings = <<>>
    /\ price_history = <<>>
    /\ sent_notifications = <<>>
    /\ scrape_count = 0
    /\ notifications_sent = 0
    /\ pc = "none"
    /\ all_listings = <<>>
    /\ cur = NoCur
    /\ notifications_to_send = <<>>
    /\ j = 0
    /\ message_id = None
    /\ events = <<>>
    /\ outcomes = <<>>
    /\ escaped = FALSE
    /\ site \in Sites
    /\ spc = "start"
    /\ target = 0
    /\ page_num = 0
    /\ attempt = 0
    /\ scraped = <<>>
    /\ slog = <<>>
    /\ proxies = <<>>
    /\ last_refresh = None
    /\ lock = [holder |-> "free", waiters |-> <<>>]
    /\ pnow = 0
    /\ ppc = [c \in Coros |-> "off"]
    /\ by_get = [c \in Coros |-> FALSE]
    /\ source = [c \in Coros |-> 0]
    /\ all_proxies = [c \in Coros |-> <<>>]
    /\ selected = [c \in Coros |-> NoProxy]
    /\ calls = 0
    /\ evicted = [c \in Coros \cup {"next"} |-> {}]
    /\ current_proxy = NoProxy
    /\ browser = NoProxy
    /\ backoffs = <<>>
    /\ stop_pc = "running"

Init == InitBot \/ InitScraper

Process ==
    \/ UpsertUpdate \/ UpsertInsert \/ UpsertRaise \/ UpsertInsertPartial
    \/ DedupSkip \/ DedupClear \/ DedupRaise
    \/ AnalyzePrice \/ AnalyzePriceRaise
    \/ AnalyzeUrgency \/ AnalyzeUrgencyRaise
    \/ Gate

Dispatch == SendOk \/ SendFail \/ Record \/ RecordRaise \/ Sleep

\* The scrape phase as main.py writes it.
ScrapePhase ==
    \/ \E s \in Sites : ScraperEnter(s)
    \/ ScraperEnterRaise
    \/ ScrapeCall

\* The steps of ListAmScraper.scrape_listings.
Scrape ==
    \/ ScrapeListings
    \/ FetchOk \/ FetchBadStatus \/ FetchRaise
    \/ ParsePage \/ ContentRaise
    \/ PageDelay \/ ModelDelay

\* The job: its scrape phase as written, and its processing and dispatch
\* phases for every batch a scrape phase can hand to them.
Next ==
    \/ BeginCycle
    \/ ScrapePhase
    \/ \E batch \in SeqsUpTo(CarListings, MaxBatch) : Scraped(batch)
    \/ Scrape
    \/ Process
    \/ Dispatch
    \/ Summary
    \/ \E d \in Elapse : Wait(d)

Spec == Init /\ [][Next]_vars

\* ------------------------------------------------------- AutoDealBot.stop
\* The job is running: the scheduler has started scrape_and_notify and it
\* has not returned.
JobRunning == pc \notin {"due", "idle", "cancelled"}

\* Lines 137-140 of stop, reached from the finally of main (lines 280-281)
\* when main is interrupted: _is_running is cleared and
\* scheduler.shutdown(wait=False) returns without waiting for the job;
\* whether the scheduler cancels the running job at its await or
\* leaves it running is the scheduler's matter.
StopRequest ==
    /\ stop_pc = "running"
    /\ stop_pc' = "telegram"
    /\ pc' \in (IF JobRunning THEN {pc, "cancelled"} ELSE {pc})
    /\ UNCHANGED <<now, repo, scrape_count, notifications_sent, all_listings, cur,
                   notifications_to_send, j, message_id, events, outcomes, escaped,
                   scraper, net>>

\* Line 141: await self.telegram_bot.stop() closes the session of the bot.
StopTelegram ==
    /\ stop_pc = "telegram"
    /\ stop_pc' = "repository"
    /\ UNCHANGED <<now, repo, cycle, scraper, net>>

\* Line 142: await self.repository.close() disposes of the engine.
StopRepository ==
    /\ stop_pc = "repository"
    /\ stop_pc' = "stopped"
    /\ UNCHANGED <<now, repo, cycle, scraper, net>>

\* The batches the job is given while a stop can be requested.
StopBatches ==
    {<<CarListing("a", 100, "BMW X5")>>,
     <<CarListing("a", 100, "BMW X5"), CarListing("a", 60, "BMW X5")>>}

\* The job with the batches of StopBatches, and stop called at any moment.
StopNext ==
    \/ BeginCycle
    \/ \E batch \in StopBatches : Scraped(batch)
    \/ Process
    \/ Dispatch
    \/ Summary
    \/ \E d \in Elapse : Wait(d)
    \/ StopRequest
    \/ StopTelegram
    \/ StopRepository

StopSpec == InitBot /\ [][StopNext]_vars

\* A ProxyManager on its own, just constructed (lines 55-68), used by the
\* coroutines of Coros; no scraper and no bot run.
InitPool ==
    /\ now = 0
    /\ listings = <<>>
    /\ price_history = <<>>
    /\ sent_notifications = <<>>
    /\ scrape_count = 0
    /\ notifications_sent = 0
    /\ pc = "none"
    /\ all_listings = <<>>
    /\ cur = NoCur
    /\ notifications_to_send = <<>>
    /\ j = 0
    /\ message_id = None
    /\ events = <<>>
    /\ outcomes = <<>>
    /\ escaped = FALSE
    /\ site = <<>>
    /\ spc = "none"
    /\ target = 0
    /\ page_num = 0
    /\ attempt = 0
    /\ scraped = <<>>
    /\ slog = <<>>
    /\ proxies = <<>>
    /\ last_refresh = None
    /\ lock = [holder |-> "free", waiters |-> <<>>]
    /\ pnow = 0
    /\ ppc = [c \in Coros |-> "idle"]
    /\ by_get = [c \in Coros |-> FALSE]
    /\ source = [c \in Coros |-> 0]
    /\ all_proxies = [c \in Coros |-> <<>>]
    /\ selected = [c \in Coros |-> NoProxy]
    /\ calls = 0
    /\ evicted = [c \in Coros \cup {"next"} |-> {}]
    /\ current_proxy = NoProxy
    /\ browser = NoProxy
    /\ backoffs = <<>>
    /\ stop_pc = "running"

\* The calls the coroutines make on the ProxyManager, and its clock.
PoolNext ==
    \/ \E c \in Coros : GetProxyRefresh(c)
    \/ \E c \in Coros : GetProxySelect(c)
    \/ \E c \in Coros : RefreshCall(c)
    \/ \E c \in Coros : Acquire(c)
    \/ \E c \in Coros, r \in SourceResults : FetchFromSource(c, r)
    \/ \E c \in Coros, test \in [Urls -> Responses] : ValidateAndSwap(c, test)
    \/ \E c \in Coros : GetProxyReturn(c)
    \/ \E c \in Coros, url \in Urls : MarkFailed(c, url)
    \/ \E c \in Coros, url \in Urls : MarkSuccess(c, url)
    \/ \E d \in PoolElapse : Tick(d)

PoolSpec == InitPool /\ [][PoolNext]_vars

\* The site the scraper with a ProxyManager is run on.
ProxiedSite == [t \in 1..NumTargets |-> [p \in 1..MaxPages |-> <<ElemA>>]]

\* A ListAmScraper started on its own with a just constructed ProxyManager
\* (`async with ListAmScraper(proxy_manager=pm) as s`), whose
\* scrape_listings is called with max_pages = MaxPages.
InitProxied ==
    /\ now = 0
    /\ listings = <<>>
    /\ price_history = <<>>
    /\ sent_notifications = <<>>
    /\ scrape_count = 0
    /\ notifications_sent = 0
    /\ pc = "none"
    /\ all_listings = <<>>
    /\ cur = NoCur
    /\ notifications_to_send = <<>>
    /\ j = 0
    /\ message_id = None
    /\ events = <<>>
    /\ outcomes = <<>>
    /\ escaped = FALSE
    /\ site = ProxiedSite
    /\ spc = "start"
    /\ target = 0
    /\ page_num = 0
    /\ attempt = 0
    /\ scraped = <<>>
    /\ slog = <<>>
    /\ proxies = <<>>
    /\ last_refresh = None
    /\ lock = [holder |-> "free", waiters |-> <<>>]
    /\ pnow = 0
    /\ ppc = [c \in Coros |-> IF c = "c1" THEN "scraper" ELSE "off"]
    /\ by_get = [c \in Coros |-> FALSE]
    /\ source = [c \in Coros |-> 0]
    /\ all_proxies = [c \in Coros |-> <<>>]
    /\ selected = [c \in Coros |-> NoProxy]
    /\ calls = 0
    /\ evicted = [c \in Coros \cup {"next"} |-> {}]
    /\ current_proxy = NoProxy
    /\ browser = NoProxy
    /\ backoffs = <<>>
    /\ stop_pc = "running"

\* The steps of scrape_listings with the get_proxy calls of its retries.
FetchNext ==
    \/ Scrape
    \/ FetchAskRefresh
    \/ FetchAskSelect
    \/ \E r \in SourceResults : FetchFromSource("c1", r)
    \/ \E test \in [Urls -> Responses] : ValidateAndSwap("c1", test)
    \/ FetchGotProxy
    \/ FetchRelaunch
    \/ RelaunchRaise

FetchSpec == InitProxied /\ [][FetchNext]_vars

\* ------------------------------------------------ one listing is ingested
\* listing_id of the stored rows, by position.
Ids == <<"r1", "r2", "r3", "r4", "r5", "r6", "r7", "r8", "r9", "r10", "r11", "r12",
         "r13", "r14", "r15", "r16", "r17", "r18", "r19", "r20">>

\* What matters of a stored row to the analyzers, and the rows of a list of
\* such: BMW X5 or Audi rows without keywords.
Kind(make, year, price) == [make |-> make, year |-> year, price |-> price]

Rows(kinds) ==
    [i \in DOMAIN kinds |->
        [source |-> SOURCE_NAME, listing_id |-> Ids[i], make |-> kinds[i].make,
         model |-> "X5", year |-> kinds[i].year, price_usd |-> kinds[i].price,
         title |-> "BMW X5", is_urgent |-> FALSE]]

Rep(k, x) == [i \in 1..k |-> x]

\* n BMW rows of the model years 2020 to 2022 at prices of 2000 to 2300.
NearKinds(n) == [i \in 1..n |-> Kind("BMW", 2020 + (i % 3), 2000 + 100 * (i % 4))]

\* Tables by what they hold: up to MaxComparable BMW rows of 2020-2022, up to
\* MaxLater BMW rows of 2024, and possibly a BMW of 2018, a BMW without a
\* year and an Audi of 2021.
CountTables ==
    {Rows(NearKinds(n)
          \o Rep(later, Kind("BMW", 2024, 2500))
          \o Rep(older, Kind("BMW", 2018, 1000))
          \o Rep(yearless, Kind("BMW", None, 2500))
          \o Rep(other, Kind("Audi", 2021, 1500))) :
        n \in 0..MaxComparable, later \in 0..MaxLater, older \in 0..1,
        yearless \in 0..1, other \in 0..1}

\* Tables of BMW rows of 2021 at given prices.
PriceLists == {<<12000, 13000, 15000, 16000, 20000>>, <<2000, 2000, 2300>>, <<2000, 2300>>}
PriceTables == {Rows([i \in DOMAIN l |-> Kind("BMW", 2021, l[i])]) : l \in PriceLists}

\* price_history as upsert_listing leaves it when every row was inserted
\* once and never changed its price.
InsertHistory(tbl) == [i \in DOMAIN tbl |-> PriceHistory(i, tbl[i].price_usd)]

\* The prices recorded for row 1 so far, oldest first: none (the insert
\* failed between its two commits), the price of the insert, or a change
\* after it.
HistoryPatterns == {<<>>, <<0>>, <<1000>>, <<2000, 1000>>, <<500, 1000>>}

\* Two BMW rows of 2021, the first with the given recorded prices, and the
\* price_history that goes with them: the insert of row 2 lies between the
\* first and the later records of row 1.
HistoryTable(pattern) ==
    Rows(<<Kind("BMW", 2021, IF pattern = <<>> THEN 1000 ELSE pattern[Len(pattern)]),
           Kind("BMW", 2021, 5000)>>)

HistoryOf(pattern) ==
    (IF pattern = <<>> THEN <<>> ELSE <<PriceHistory(1, Head(pattern))>>)
    \o <<PriceHistory(2, 5000)>>
    \o (IF pattern = <<>> THEN <<>>
        ELSE [i \in 1..(Len(pattern) - 1) |-> PriceHistory(1, pattern[i + 1])])

\* The databases a listing is ingested into.
Databases ==
    {[listings |-> t, price_history |-> InsertHistory(t)] : t \in CountTables \cup PriceTables}
    \cup {[listings |-> HistoryTable(h), price_history |-> HistoryOf(h)] :
              h \in HistoryPatterns}

\* The CarListing that is ingested: a BMW X5 of 2021 or without a year, new
\* or the one of row 1, with or without a keyword in its title and with or
\* without the flag of the scraper, at a price that lies on, just beside or
\* far from the thresholds of the analyzers for the tables above.
IngestPrices == {0, 899, 900, 949, 950, 951, 1000, 1699, 1700, 14000}

Ingested ==
    {[source |-> SOURCE_NAME, listing_id |-> id, make |-> "BMW", model |-> "X5",
      year |-> y, price_usd |-> p, title |-> t, is_urgent |-> flag] :
        id \in {"r1", "new"}, y \in {2021, None}, p \in IngestPrices,
        t \in Titles, flag \in BOOLEAN}

\* The loop body of scrape_and_notify is about to run for one listing, on a
\* database of Databases; a notification for row 1 may have been sent within
\* the last 24 hours.
InitIngest ==
    /\ now = 0
    /\ \E db \in Databases :
           /\ listings = db.listings
           /\ price_history = db.price_history
    /\ sent_notifications \in {<<>>, <<SentNotification(1, "new_listing", 0)>>}
    /\ scrape_count = 0
    /\ notifications_sent = 0
    /\ pc = "upsert"
    /\ all_listings = <<>>
    /\ \E l \in Ingested : cur = [NoCur EXCEPT !.car_listing = l]
    /\ notifications_to_send = <<>>
    /\ j = 0
    /\ message_id = None
    /\ events = <<>>
    /\ outcomes = <<>>
    /\ escaped = FALSE
    /\ site = <<>>
    /\ spc = "idle"
    /\ target = 0
    /\ page_num = 0
    /\ attempt = 0
    /\ scraped = <<>>
    /\ slog = <<>>
    /\ proxies = <<>>
    /\ last_refresh = None
    /\ lock = [holder |-> "free", waiters |-> <<>>]
    /\ pnow = 0
    /\ ppc = [c \in Coros |-> "off"]
    /\ by_get = [c \in Coros |-> FALSE]
    /\ source = [c \in Coros |-> 0]
    /\ all_proxies = [c \in Coros |-> <<>>]
    /\ selected = [c \in Coros |-> NoProxy]
    /\ calls = 0
    /\ evicted = [c \in Coros \cup {"next"} |-> {}]
    /\ current_proxy = NoProxy
    /\ browser = NoProxy
    /\ backoffs = <<>>
    /\ stop_pc = "running"

\* The loop body for that listing: upsert, dedup query, both analyzers, gate.
IngestNext == Process

IngestSpec == InitIngest /\ [][IngestNext]_vars

\* ------------------------------------- the scrape job and the refresh job
\* The site of the scraper that runs beside the proxy_refresh job: no page
\* holds a listing.
EmptySite == [t \in 1..NumTargets |-> [p \in 1..MaxPages |-> <<>>]]

\* What a source and a validation request answer while the two jobs run:
\* the source fails or lists both proxies, the request gets 200 or raises.
JobsSourceResults == {r \in SourceResults : r.proxies # <<ProxyB>>}
JobsResponses == {"200", "raise"}

\* The pools initialize (main.py line 100) can leave before the jobs are
\* scheduled: both proxies of a source validated, or none.
InitialPools ==
    {Validated(<<ProxyA, ProxyB>>, [u \in Urls |-> r]) : r \in JobsResponses}

\* AutoDealBot.start has initialized the ProxyManager and started the
\* scheduler with both jobs; the scrape job is about to run the
\* scrape_listings of a ListAmScraper that holds the ProxyManager (c1), the
\* proxy_refresh job (c2) has not run yet.
InitJobs ==
    /\ now = 0
    /\ listings = <<>>
    /\ price_history = <<>>
    /\ sent_notifications = <<>>
    /\ scrape_count = 0
    /\ notifications_sent = 0
    /\ pc = "none"
    /\ all_listings = <<>>
    /\ cur = NoCur
    /\ notifications_to_send = <<>>
    /\ j = 0
    /\ message_id = None
    /\ events = <<>>
    /\ outcomes = <<>>
    /\ escaped = FALSE
    /\ site = EmptySite
    /\ spc = "start"
    /\ target = 0
    /\ page_num = 0
    /\ attempt = 0
    /\ scraped = <<>>
    /\ slog = <<>>
    /\ proxies \in InitialPools
    /\ last_refresh = 0
    /\ lock = [holder |-> "free", waiters |-> <<>>]
    /\ pnow = 0
    /\ ppc = [c \in Coros |-> IF c = "c1" THEN "scraper" ELSE "idle"]
    /\ by_get = [c \in Coros |-> FALSE]
    /\ source = [c \in Coros |-> 0]
    /\ all_proxies = [c \in Coros |-> <<>>]
    /\ selected = [c \in Coros |-> NoProxy]
    /\ calls = 0
    /\ evicted = [c \in Coros \cup {"next"} |-> {}]
    /\ current_proxy = NoProxy
    /\ browser = NoProxy
    /\ backoffs = <<>>
    /\ stop_pc = "running"

\* The two jobs of the scheduler as coroutines of one event loop: the steps of
\* scrape_listings with its get_proxy calls (on EmptySite no page is followed
\* by another page of its target, so line 119 of list_am.py is never
\* reached), the steps of the refresh_proxies the proxy_refresh job calls,
\* and the passing of time beyond the refresh interval.
JobsNext ==
    \/ ScrapeListings
    \/ FetchOk
    \/ FetchBadStatus
    \/ FetchRaise
    \/ ParsePage
    \/ ContentRaise
    \/ ModelDelay
    \/ FetchAskRefresh
    \/ FetchAskSelect
    \/ FetchGotProxy
    \/ FetchRelaunch
    \/ RelaunchRaise
    \/ RefreshCall("c2")
    \/ \E c \in Coros : Acquire(c)
    \/ \E c \in Coros, r \in JobsSourceResults : FetchFromSource(c, r)
    \/ \E c \in Coros, test \in [Urls -> JobsResponses] : ValidateAndSwap(c, test)
    \/ Tick(refresh_interval + 1)

JobsSpec == InitJobs /\ [][JobsNext]_vars

\* ------------------------------------- the bot is started on a used database
\* The sqlite file outlives the process: a bot that is started again finds
\* the rows of its earlier run.  Here that run stored listing "a" at 100 and
\* recorded its new_listing notification at hour 0.
KnownListing == CarListing("a", 100, "BMW X5")

\* What the site shows of listing "a" from now on (its price dropped to 60,
\* or not yet), and a second listing.
RestartListings ==
    {CarListing("a", 60, "BMW X5"), KnownListing, CarListing("b", 100, "BMW X5")}

RestartBatches == SeqsUpTo(RestartListings, MaxBatch)

\* AutoDealBot.__init__ and start, 12, 24 or 25 hours after that notification.
InitRestart ==
    /\ now \in Elapse
    /\ listings = <<ListingRow(KnownListing)>>
    /\ price_history = <<PriceHistory(1, KnownListing.price_usd)>>
    /\ sent_notifications = <<SentNotification(1, "new_listing", 0)>>
    /\ scrape_count = 0
    /\ notifications_sent = 0
    /\ pc = "due"
    /\ all_listings = <<>>
    /\ cur = NoCur
    /\ notifications_to_send = <<>>
    /\ j = 0
    /\ message_id = None
    /\ events = <<>>
    /\ outcomes = <<>>
    /\ escaped = FALSE
    /\ site = <<>>
    /\ spc = "idle"
    /\ target = 0
    /\ page_num = 0
    /\ attempt = 0
    /\ scraped = <<>>
    /\ slog = <<>>
    /\ proxies = <<>>
    /\ last_refresh = None
    /\ lock = [holder |-> "free", waiters |-> <<>>]
    /\ pnow = 0
    /\ ppc = [c \in Coros |-> "off"]
    /\ by_get = [c \in Coros |-> FALSE]
    /\ source = [c \in Coros |-> 0]
    /\ all_proxies = [c \in Coros |-> <<>>]
    /\ selected = [c \in Coros |-> NoProxy]
    /\ calls = 0
    /\ evicted = [c \in Coros \cup {"next"} |-> {}]
    /\ current_proxy = NoProxy
    /\ browser = NoProxy
    /\ backoffs = <<>>
    /\ stop_pc = "running"

\* The job when nothing fails: every repository call returns, the sink
\* accepts every send and every record is written.
RestartNext ==
    \/ BeginCycle
    \/ \E batch \in RestartBatches : Scraped(batch)
    \/ UpsertUpdate
    \/ UpsertInsert
    \/ DedupSkip
    \/ DedupClear
    \/ AnalyzePrice
    \/ AnalyzeUrgency
    \/ Gate
    \/ SendOk
    \/ Record
    \/ Sleep
    \/ Summary
    \/ \E d \in Elapse : Wait(d)

RestartSpec == InitRestart /\ [][RestartNext]_vars

\* The bot is started after the window of that notification has passed, and
\* the sink may refuse a send (send_notification returns None); nothing
\* else fails.
InitRetry == InitRestart /\ now > DEDUP_HOURS

RetryNext == RestartNext \/ SendFail

RetrySpec == InitRetry /\ [][RetryNext]_vars

\* =================================================================== Claims
\* A SentNotification of the listing lies within the last 24 hours.
SentWithin24h(id) ==
    \E n \in DOMAIN sent_notifications :
        /\ sent_notifications[n].listing_id = id
        /\ now - sent_notifications[n].sent_at <= 24

DropAtLeast5(previous_price, price_usd) ==
    /\ previous_price # None
    /\ previous_price > 0
    /\ (previous_price - price_usd) * 20 >= previous_price

InListingLoop == pc \in {"upsert", "dedup", "price", "urgency", "gate"}

IsSend(e) == e.op = "send"
SendsOf(ev) == SelectSeq(ev, IsSend)

\* The send attempts logged so far are those of notifications 1..m, in order.
SendsAre(m) ==
    /\ Len(SendsOf(events)) = m
    /\ \A k \in 1..m : SendsOf(events)[k].n = k

Attempted ==
    IF pc \in {"record", "sleep"} THEN j
    ELSE IF pc = "send" THEN j - 1
    ELSE IF pc = "summary" THEN Len(notifications_to_send)
    ELSE 0

LastEventIs(op, ok) ==
    /\ events # <<>>
    /\ events[Len(events)].op = op
    /\ events[Len(events)].ok = ok
    /\ events[Len(events)].n = j

\* C1: a listing with a SentNotification within the last 24 hours reaches
\* neither analyzer, and while the listing loop runs no notification of
\* such a listing is in the queue, also when its price was just changed by
\* 5% or more.
C1_DedupShortCircuits ==
    /\ pc \in {"price", "urgency", "gate"} => ~SentWithin24h(cur.listing.id)
    /\ InListingLoop =>
           \A k \in DOMAIN notifications_to_send :
               ~SentWithin24h(notifications_to_send[k].listing.id)
    /\ \A k \in DOMAIN outcomes :
           (InListingLoop /\ outcomes[k].kind \in {"queued", "passed"})
               => ~SentWithin24h(outcomes[k].listing)

C1_Witness ==
    \E k \in DOMAIN outcomes :
        /\ outcomes[k].kind = "skipped"
        /\ SentWithin24h(outcomes[k].listing)
        /\ ~outcomes[k].is_new
        /\ DropAtLeast5(outcomes[k].previous_price, outcomes[k].price_usd)

SameKey(a, b) == a.source = b.source /\ a.listing_id = b.listing_id

\* C2: the repository never holds two rows of one (source, listing_id); an
\* upsert that returns for a stored key adds no row and appends no price
\* entry when price_usd is unchanged and exactly one, holding the new price,
\* when it changed; the first upsert of a key adds its row and exactly one
\* entry holding the initial price.
C2_UpsertOneRowPerKey ==
    /\ [](\A r1, r2 \in DOMAIN listings :
              SameKey(listings[r1], listings[r2]) => r1 = r2)
    /\ [][(pc = "upsert" /\ pc' = "dedup") =>
             LET data == cur.car_listing
                 rows == {r \in DOMAIN listings : SameKey(listings[r], data)}
             IN IF rows # {}
                THEN /\ Len(listings') = Len(listings)
                     /\ \A r \in rows :
                            /\ SameKey(listings'[r], data)
                            /\ listings'[r].price_usd = data.price_usd
                            /\ price_history' =
                                   IF listings[r].price_usd = data.price_usd
                                   THEN price_history
                                   ELSE Append(price_history,
                                               [listing_id |-> r,
                                                price_usd |-> data.price_usd])
                ELSE /\ Len(listings') = Len(listings) + 1
                     /\ SubSeq(listings', 1, Len(listings)) = listings
                     /\ SameKey(listings'[Len(listings')], data)
                     /\ price_history' =
                            Append(price_history,
                                   [listing_id |-> Len(listings'),
                                    price_usd |-> data.price_usd])]_vars

C2_Witness ==
    /\ pc = "dedup"
    /\ ~cur.is_new
    /\ cur.previous_price # cur.listing.price_usd
    /\ Len(get_price_history(price_history, cur.listing.id)) = 2

Unflagged(n) == ~n.price_analysis.is_good_deal /\ ~n.urgency_analysis.is_urgent

\* C3: an upsert that reported is_new, with neither a good deal nor urgency
\* found, queues exactly one notification; each queued notification is sent
\* exactly once; and when that send returned a message id, recording it
\* appends exactly one SentNotification, with reason new_listing.
C3_NewListingNotifiedOnce ==
    /\ [](SendsAre(Attempted))
    /\ [][(pc = "gate" /\ cur.is_new /\ Unflagged(cur)) =>
             /\ Len(notifications_to_send') = Len(notifications_to_send) + 1
             /\ SubSeq(notifications_to_send', 1, Len(notifications_to_send))
                    = notifications_to_send
             /\ notifications_to_send'[Len(notifications_to_send')].listing.id
                    = cur.listing.id]_vars
    /\ [][(pc = "send" /\ notifications_to_send[j].is_new
             /\ Unflagged(notifications_to_send[j]) /\ message_id' # None) =>
             pc' = "record"]_vars
    /\ [][(pc = "record" /\ pc' = "sleep" /\ notifications_to_send[j].is_new
             /\ Unflagged(notifications_to_send[j])) =>
             sent_notifications' =
                 Append(sent_notifications,
                        [listing_id |-> notifications_to_send[j].listing.id,
                         reason |-> "new_listing", sent_at |-> now])]_vars

C3_Witness ==
    /\ pc = "sleep"
    /\ LastEventIs("record", TRUE)
    /\ notifications_to_send[j].is_new
    /\ Unflagged(notifications_to_send[j])
    /\ sent_notifications[Len(sent_notifications)].reason = "new_listing"

PriorityReason(n) ==
    IF n.price_analysis.is_good_deal THEN "good_price"
    ELSE IF n.urgency_analysis.is_urgent THEN "urgent"
    ELSE "new_listing"

\* C4: the reason recorded for a dispatched notification of a new listing
\* is good_price if the price analysis flagged a good deal, else urgent if
\* the urgency analysis flagged urgency, else new_listing.
C4_ReasonPriority ==
    (pc = "sleep" /\ LastEventIs("record", TRUE) /\ notifications_to_send[j].is_new)
        => sent_notifications[Len(sent_notifications)].reason
               = PriorityReason(notifications_to_send[j])

\* C5: a listing that is not new and reaches the gating step is queued
\* exactly when its price fell by 5% or more from the previous price; no
\* other notification of a non-new listing is ever in the queue; and the
\* reason recorded on its dispatch is price_drop.
C5_PriceDropGate ==
    /\ \A k \in DOMAIN outcomes :
           (~outcomes[k].is_new /\ outcomes[k].kind \in {"queued", "passed"}) =>
               (outcomes[k].kind = "queued"
                    <=> DropAtLeast5(outcomes[k].previous_price, outcomes[k].price_usd))
    /\ \A k \in DOMAIN notifications_to_send :
           ~notifications_to_send[k].is_new =>
               DropAtLeast5(notifications_to_send[k].previous_price,
                            notifications_to_send[k].listing.price_usd)
    /\ Len(notifications_to_send)
           = Cardinality({k \in DOMAIN outcomes : outcomes[k].kind = "queued"})
    /\ (pc = "sleep" /\ LastEventIs("record", TRUE) /\ ~notifications_to_send[j].is_new)
           => sent_notifications[Len(sent_notifications)].reason = "price_drop"

C5_Witness ==
    /\ pc = "sleep"
    /\ LastEventIs("record", TRUE)
    /\ ~notifications_to_send[j].is_new
    /\ notifications_to_send[j].previous_price = 100
    /\ notifications_to_send[j].listing.price_usd = 95
    /\ sent_notifications[Len(sent_notifications)].reason = "price_drop"

C5_SmallDropPassed ==
    \E k \in DOMAIN outcomes :
        /\ ~outcomes[k].is_new
        /\ outcomes[k].kind = "passed"
        /\ outcomes[k].previous_price = 100
        /\ outcomes[k].price_usd = 96

\* C6: while the last send_notification has returned no message id, no
\* SentNotification is appended, and the dispatch loop goes on to the next
\* queued notification: at the end of the cycle every queued notification
\* has been attempted.
C6_FailedSendNotRecorded ==
    /\ [][(message_id = None /\ pc \in {"record", "sleep"}) =>
             /\ sent_notifications' = sent_notifications
             /\ IF j < Len(notifications_to_send)
                THEN pc' = "send" /\ j' = j + 1
                ELSE pc' = "summary"]_vars
    /\ [](pc = "summary" => SendsAre(Len(notifications_to_send)))

C6_Witness ==
    /\ pc = "summary"
    /\ Len(notifications_to_send) >= 2
    /\ ~SendsOf(events)[1].ok
    /\ SendsOf(events)[2].n = 2
    /\ \A n \in DOMAIN sent_notifications :
           sent_notifications[n].listing_id # notifications_to_send[1].listing.id

\* C7: when the loop body raises for one listing, the listings not reached
\* yet stay in the loop and the queue is kept: the loop goes on with the
\* next listing, or with the dispatch of the whole queue when it was the
\* last one; at the end of the cycle no listing is left unprocessed and
\* every queued notification has been attempted.
C7_FailingListingContained ==
    /\ [][(Len(outcomes') = Len(outcomes) + 1
             /\ outcomes'[Len(outcomes')].kind = "raised") =>
             /\ notifications_to_send' = notifications_to_send
             /\ IF all_listings # <<>>
                THEN /\ pc' = "upsert"
                     /\ cur'.car_listing = Head(all_listings)
                     /\ all_listings' = Tail(all_listings)
                ELSE IF notifications_to_send # <<>>
                THEN pc' = "send" /\ j' = 1
                ELSE pc' = "summary"]_vars
    /\ [](pc \in {"send", "record", "sleep", "summary"} => all_listings = <<>>)
    /\ [](pc = "summary" => Len(SendsOf(events)) = Len(notifications_to_send))

C7_Witness ==
    /\ pc = "summary"
    /\ Len(outcomes) = 2
    /\ outcomes[1].kind = "raised"
    /\ outcomes[2].kind = "queued"
    /\ Len(SendsOf(events)) = 1

\* C8: the queued notifications are sent one at a time in queue order, and
\* between any two consecutive send attempts a sleep is awaited.
C8_PacedInOrder ==
    /\ SendsAre(Attempted)
    /\ \A a, b \in DOMAIN events :
           (a < b /\ events[a].op = "send" /\ events[b].op = "send") =>
               \E c \in (a + 1)..(b - 1) : events[c].op = "sleep"

\* The elements scrape_listings comes to when every fetch succeeds: those of
\* each target's pages up to its first page without elements.
Served(s) ==
    UNION {{s[x[1]][x[2]][i] : i \in DOMAIN s[x[1]][x[2]]} :
             x \in {y \in (DOMAIN s) \X (1..MaxPages) :
                       \A q \in 1..y[2] : s[y[1]][q] # <<>>}}

AllFetchesOk == \A i \in DOMAIN slog : slog[i].op = "fetch" => slog[i].ok

NoScrapeFailure == \A i \in DOMAIN slog : slog[i].op # "error"

InRepository(element) ==
    \E r \in DOMAIN listings :
        /\ listings[r].source = SOURCE_NAME
        /\ listings[r].listing_id = element.listing_id

\* C9: when the page fetches succeed and the pages hold well-formed listing
\* elements, every listing parsed from them is returned by scrape_listings,
\* and in a cycle of the job it is in the Repository when the cycle ends.
C9_ScrapedListingsUpserted ==
    /\ (spc = "returned" /\ AllFetchesOk)
          => \A e \in Served(site) :
                \E i \in DOMAIN scraped : scraped[i] = parse_listing_element(e)
    /\ (pc = "summary" /\ slog # <<>> /\ AllFetchesOk)
          => \A e \in Served(site) : InRepository(e)

\* In a cycle that scraped as main.py writes it, the scrape phase never ends
\* otherwise than in its except clause.
C9_CycleAlwaysFails ==
    (pc \in {"upsert", "send", "summary"} /\ slog # <<>>) => ~NoScrapeFailure

\* scrape_listings on its own never returns a listing.
C9_ScraperReturnsNothing == spc = "returned" => scraped = <<>>

InCycle ==
    pc \in {"due", "scrape", "call", "scraping", "upsert", "dedup", "price",
            "urgency", "gate", "send", "record", "sleep", "summary"}

CycleStep == BeginCycle \/ ScrapePhase \/ Scrape \/ Process \/ Dispatch \/ Summary

\* What is left of the job at each of its positions: the stages of the
\* notification in hand and three for each one behind it, above that the
\* stages of the listing in hand and five for each one behind it, above
\* that the scrape phase.
DispatchLeft ==
    3 * (Len(notifications_to_send) - j)
    + (CASE pc = "send" -> 3 [] pc = "record" -> 2 [] pc = "sleep" -> 1 [] OTHER -> 0)

ListingsLeft ==
    5 * Len(all_listings)
    + (CASE pc = "upsert" -> 5 [] pc = "dedup" -> 4 [] pc = "price" -> 3
         [] pc = "urgency" -> 2 [] pc = "gate" -> 1 [] OTHER -> 0)

Left ==
    CASE pc \in {"due", "scrape", "call", "scraping"} ->
            (CASE pc = "due" -> 4 [] pc = "scrape" -> 3 [] pc = "call" -> 2
               [] OTHER -> 1) + 8 * (MaxBatch + 1) + 1
      [] InListingLoop -> ListingsLeft + 3 * (MaxBatch + 1) + 1
      [] pc \in {"send", "record", "sleep"} -> DispatchLeft + 1
      [] pc = "summary" -> 1
      [] OTHER -> 0

\* A failure has just been contained: the handler has logged it and no later
\* step of the job has been taken.
JustContained ==
    \/ pc = "summary" /\ slog # <<>> /\ slog[Len(slog)].op = "error"
    \/ /\ pc \in {"upsert", "send", "summary"}
       /\ outcomes # <<>> /\ outcomes[Len(outcomes)].kind = "raised"
       /\ events = <<>>
    \/ /\ pc \in {"sleep", "send", "summary"}
       /\ events # <<>> /\ ~events[Len(events)].ok

ErrorLogged == slog' = Append(slog, LogEntry("error", FALSE, 0))

FetchExhausted == slog' = Append(slog, LogEntry("fetch", FALSE, max_retries - 1))

ListingFailed ==
    /\ InListingLoop
    /\ Len(outcomes') = Len(outcomes) + 1
    /\ outcomes'[Len(outcomes')].kind = "raised"

DispatchFailed ==
    /\ pc \in {"send", "record"}
    /\ Len(events') = Len(events) + 1
    /\ ~events'[Len(events')].ok

\* C10: no exception leaves scrape_and_notify.  A failure of the scrape
\* phase leaves the batch empty and the job goes on; a page whose fetch is
\* exhausted is logged and the scraper goes on with the next target (or
\* returns after the last); a failing listing gives way to the next listing
\* and a failing dispatch (a send that returns no message id, a record
\* that raises) to the next notification; after each of them the job can
\* step on, every step of the job leaves less of it to do, and once it has
\* returned the scheduler can start the next one.
C10_FailuresContained ==
    /\ [](~escaped)
    /\ []((InCycle /\ JustContained) => ENABLED CycleStep)
    /\ [][(InCycle /\ pc # "scraping") => Left' < Left]_vars
    /\ []((pc = "idle" /\ scrape_count < MaxCycles) => ENABLED (\E d \in Elapse : Wait(d)))
    /\ [][ErrorLogged =>
            /\ pc \in {"scrape", "call", "scraping"}
            /\ pc' = "summary"
            /\ all_listings' = <<>>
            /\ UNCHANGED <<repo, notifications_to_send, scrape_count, notifications_sent>>]_vars
    /\ [][FetchExhausted =>
            /\ spc' = "model_delay"
            /\ UNCHANGED <<target, scraped, pc>>]_vars
    /\ [][spc = "model_delay" =>
            IF target < NumTargets
            THEN spc' = "fetch" /\ target' = target + 1 /\ page_num' = 1
                 /\ scraped' = scraped
            ELSE spc' \in {"returned", "idle"}]_vars
    /\ [][ListingFailed =>
            /\ pc' = (IF all_listings # <<>> THEN "upsert"
                      ELSE IF notifications_to_send # <<>> THEN "send" ELSE "summary")
            /\ UNCHANGED <<notifications_to_send, scrape_count>>]_vars
    /\ [][DispatchFailed =>
            /\ pc' = (IF pc = "send" THEN "sleep"
                      ELSE IF j < Len(notifications_to_send) THEN "send" ELSE "summary")
            /\ j' = (IF pc = "record" /\ j < Len(notifications_to_send)
                     THEN j + 1 ELSE j)
            /\ UNCHANGED <<notifications_to_send, scrape_count, notifications_sent>>]_vars

\* The second cycle has reached its end after a failure of its scrape phase.
C10_Witness ==
    /\ pc = "summary"
    /\ scrape_count = MaxCycles
    /\ ~NoScrapeFailure
    /\ listings # <<>>
    /\ ~escaped

\* A scraper on its own has gone on to the second target after the fetch of
\* a page of the first was exhausted.
C10_FetchExhaustedWitness ==
    /\ target = 2
    /\ \E i \in DOMAIN slog : slog[i].op = "fetch" /\ ~slog[i].ok /\ slog[i].target = 1
    /\ \E i \in DOMAIN slog : slog[i].op = "fetch" /\ slog[i].ok /\ slog[i].target = 2

\* A listing raised and a dispatch failed in a cycle that has reached its end.
C10_ListingDispatchWitness ==
    /\ pc = "summary"
    /\ \E i \in DOMAIN outcomes : outcomes[i].kind = "raised"
    /\ \E i \in DOMAIN events : ~events[i].ok

\* ------------------------------------------------------------ ProxyManager
\* The coroutine, which waited for the refresh lock, takes it and starts
\* its own refresh.
WaiterRefreshes(c) == ppc[c] = "lock" /\ ppc'[c] = "fetch"

\* C11: a get_proxy call that waited on the refresh lock while the refresh
\* of another get_proxy call ran does not refresh again once the lock is
\* released, at least not while the pool that refresh left is neither stale
\* nor under-sized.
C11_WaiterDoesNotRefreshAgain ==
    [][\A c \in Coros, d \in Coros :
           (c # d /\ by_get[c] /\ by_get[d] /\ WaiterRefreshes(c)) => ShouldRefresh]_vars

\* The coroutine is inside the locked section of refresh_proxies.
Refreshing(c) == ppc[c] \in {"fetch", "validate"}

\* At most one coroutine is inside the locked section, and it holds the lock.
OneRefreshAtATime ==
    \A c \in Coros, d \in Coros :
        Refreshing(c) => (lock.holder = c /\ (Refreshing(d) => d = c))

\* The pool after a mark call of another coroutine on the pool.
Marked(list) ==
    {mark_proxy_failed(list, url) : url \in Urls}
        \cup {mark_proxy_success(list, url) : url \in Urls}

\* The pools the refresh of the coroutine can end with: its deduplicated
\* candidates that passed the validation, all of them and nothing else.
ValidatedPools(c) ==
    {Validated(Unique(all_proxies[c], {}), test) : test \in [Urls -> Responses]}

\* C12: while a refresh runs, every step leaves the pool as it was before
\* the refresh (up to the mark calls of other coroutines), and the step that
\* ends the refresh puts the complete validated pool of that refresh in its
\* place; and no two coroutines are in the fetch/validate/swap section of
\* refresh_proxies at the same time.
C12_SwapIsAtomic ==
    /\ []OneRefreshAtATime
    /\ [][\A c \in Coros :
              Refreshing(c) =>
                  IF Refreshing(c)'
                  THEN proxies' = proxies \/ proxies' \in Marked(proxies)
                  ELSE proxies' \in ValidatedPools(c)]_vars

\* A refresh has collected candidates that differ from the pool of the
\* refresh before it, which another coroutine can still observe.
C12_Witness ==
    \E c \in Coros, d \in Coros :
        /\ c # d
        /\ ppc[c] = "validate"
        /\ ppc[d] \in {"idle", "got"}
        /\ proxies # <<>>
        /\ Unique(all_proxies[c], {}) # <<>>
        /\ Len(Unique(all_proxies[c], {})) # Len(proxies)

\* The coroutine's get_proxy call selects in this step.
Selecting(c) == ppc[c] # "got" /\ ppc'[c] = "got"

\* The URLs removed by mark_proxy_failed before the get_proxy call that
\* selects in this step began.
EvictedBefore(c) ==
    IF ppc[c] \in {"idle", "scraper"} THEN evicted["next"] ELSE evicted[c]

PoolUrls(list) == {Url(list[i]) : i \in DOMAIN list}

\* No pooled proxy has a success_rate below 0.2.
NoneBelowMinRate == \A i \in DOMAIN proxies : ~BelowMinRate(proxies[i])

\* C13: a mark_proxy_failed call that leaves a pooled proxy below 0.2
\* removes it within the call, and the pool from which the next get_proxy
\* call selects does not hold that proxy, whatever refresh, mark and
\* get_proxy calls of other coroutines come in between.
C13_EvictedNotSelectable ==
    /\ []NoneBelowMinRate
    /\ [][\A c \in Coros :
              Selecting(c) => PoolUrls(proxies') \cap EvictedBefore(c) = {}]_vars

\* The refresh of the coroutine completes in this step.
RefreshCompletes(c) == Refreshing(c) /\ ~Refreshing(c)'

NoSharedAddress(list) ==
    \A i \in DOMAIN list, k \in DOMAIN list :
        (list[i].host = list[k].host /\ list[i].port = list[k].port) => i = k

\* C14: right after refresh_proxies completes, every pooled proxy answered
\* 200 to the validation request of that refresh (its counters show that one
\* success and nothing else), and no two pooled proxies share (host, port).
C14_PoolValidatedAndUnique ==
    [][\A c \in Coros :
           RefreshCompletes(c) =>
               /\ \E test \in [Urls -> Responses] :
                      /\ ValidateAndSwap(c, test)
                      /\ \A i \in DOMAIN proxies' : test[Url(proxies'[i])] = "200"
               /\ \A i \in DOMAIN proxies' :
                      /\ proxies'[i].success_count = 1
                      /\ proxies'[i].fail_count = 0
               /\ NoSharedAddress(proxies')]_vars

\* A refresh whose sources named 10.0.0.2:3128 before 10.0.0.1:8080 (and so
\* 10.0.0.2:3128 twice) has just completed with both validated.
C14_Witness ==
    /\ PoolUrls(proxies) = Urls
    /\ Len(proxies) = 2
    /\ Url(proxies[1]) = Url(ProxyB)
    /\ \A i \in DOMAIN proxies :
           proxies[i].success_count = 1 /\ proxies[i].fail_count = 0
    /\ last_refresh = pnow
    /\ \E c \in Coros : ppc[c] = "got" /\ by_get[c]

\* a.success_rate > b.success_rate
RateGreater(a, b) == RateNum(a) * RateDen(b) > RateNum(b) * RateDen(a)

\* The pooled proxies with a success_rate above that of the proxy.
Better(list, proxy) == {k \in DOMAIN list : RateGreater(list[k], proxy)}

\* The proxy lies within the first max(1, floor(n/2)) of the n pooled
\* proxies in a descending order of success_rate.
InTopHalf(list, proxy) ==
    Cardinality(Better(list, proxy))
        < (IF Len(list) >= 2 THEN Len(list) \div 2 ELSE 1)

\* C15: get_proxy returns None exactly when the pool it selects from, after
\* the refresh it may have run, is empty; otherwise it returns the URL of a
\* pooled proxy of the top half by success_rate.
C15_SelectsFromTopHalf ==
    [][\A c \in Coros :
           Selecting(c) =>
               /\ (selected'[c] = NoProxy) <=> (proxies' = <<>>)
               /\ proxies' # <<>> =>
                      \E i \in DOMAIN proxies' :
                          /\ Url(proxies'[i]) = selected'[c]
                          /\ InTopHalf(proxies', proxies'[i])]_vars

\* get_proxy has returned the second of two pooled proxies, the first one
\* having the lower success_rate.
C15_Witness ==
    \E c \in Coros :
        /\ ppc[c] = "got"
        /\ Len(proxies) = 2
        /\ RateGreater(proxies[2], proxies[1])
        /\ selected[c] = Url(proxies[2])

\* get_proxy has returned None from a pool that a refresh left empty.
C15_NoneWitness ==
    \E c \in Coros :
        /\ ppc[c] = "got"
        /\ by_get[c]
        /\ last_refresh # None
        /\ proxies = <<>>
        /\ selected[c] = NoProxy

\* The coroutine calls get_proxy in this step.
CallsGetProxy(c) ==
    /\ ppc[c] = "idle"
    /\ \/ ppc'[c] = "got"
       \/ ppc'[c] \in {"lock", "fetch"} /\ by_get'[c]

\* The get_proxy call made in this step goes into refresh_proxies.
EntersRefresh(c) == ppc'[c] \in {"lock", "fetch"}

\* C16: a get_proxy call runs refresh_proxies before it selects exactly when
\* no refresh has completed yet, or more than the refresh interval has
\* passed since the last one, or the pool holds fewer than min_pool_size
\* proxies.
C16_RefreshesWhenStaleOrSmall ==
    [][\A c \in Coros :
           CallsGetProxy(c) =>
               (EntersRefresh(c) <=>
                    \/ last_refresh = None
                    \/ pnow - last_refresh > refresh_interval
                    \/ Len(proxies) < min_pool_size)]_vars

\* A get_proxy call that ran no refresh has returned a proxy of a pool of
\* min_pool_size proxies whose refresh lies exactly the refresh interval back.
C16_Witness ==
    \E c \in Coros :
        /\ ppc[c] = "got"
        /\ ~by_get[c]
        /\ selected[c] # NoProxy
        /\ last_refresh # None
        /\ pnow - last_refresh = refresh_interval
        /\ Len(proxies) = min_pool_size

\* A get_proxy call is inside the refresh it started on a pool of
\* min_pool_size proxies refreshed more than the refresh interval ago.
C16_StaleWitness ==
    \E c \in Coros :
        /\ ppc[c] = "fetch"
        /\ by_get[c]
        /\ last_refresh # None
        /\ pnow - last_refresh > refresh_interval
        /\ Len(proxies) = min_pool_size

\* ------------------------------------------------------------- _fetch_page
\* A _fetch_page call is running.
InFetch == spc \in {"fetch", "proxy", "relaunch", "load"}

\* How far the running attempt has come: the get_proxy call with its
\* refresh, the relaunch, the page load.
Stage ==
    CASE spc = "fetch" -> 0
      [] spc = "proxy" /\ ppc["c1"] = "lock" -> 1
      [] spc = "proxy" /\ ppc["c1"] = "fetch" -> 1 + source["c1"]
      [] spc = "proxy" /\ ppc["c1"] = "validate" -> 2 + NumSources
      [] spc = "proxy" /\ ppc["c1"] = "got" -> 3 + NumSources
      [] spc = "relaunch" -> 4 + NumSources
      [] OTHER -> 5 + NumSources

\* Grows with every step of a _fetch_page call and is at most
\* max_retries * (6 + NumSources).
Rank == attempt * (6 + NumSources) + Stage

\* _fetch_page returns the page of this attempt to scrape_listings.
ReturnsPage ==
    /\ spc' = "parse"
    /\ slog' = Append(slog, LogEntry("fetch", TRUE, attempt))

\* _fetch_page returns None after its last attempt; scrape_listings logs it
\* and leaves the pages of the target.
ReportsFailure ==
    /\ attempt = max_retries - 1
    /\ spc' = "model_delay"
    /\ FetchExhausted

\* Every request of the validation raises.
AllRaise == [u \in Urls |-> "raise"]

\* A step of the running _fetch_page call itself (of the validation, the one
\* in which every request raises).
CallStep ==
    \/ FetchOk
    \/ FetchBadStatus
    \/ FetchRaise
    \/ FetchAskRefresh
    \/ FetchAskSelect
    \/ \E r \in SourceResults : FetchFromSource("c1", r)
    \/ ValidateAndSwap("c1", AllRaise)
    \/ FetchGotProxy
    \/ FetchRelaunch
    \/ RelaunchRaise

\* C17: _fetch_page makes at most max_retries attempts; an attempt that gets
\* 200 (and the selector) returns the page at once; every other step of the
\* call moves on within the attempt or to the next attempt, and the failure
\* of the last attempt makes the call return None to its caller, never an
\* exception; a call never stops in between.
C17_FetchBounded ==
    /\ [](attempt \in 0..(max_retries - 1))
    /\ [](InFetch => ENABLED CallStep)
    /\ []((AtLoad /\ browser # Closed) => ENABLED (FetchOk /\ ReturnsPage))
    /\ [][InFetch =>
              \/ InFetch' /\ Rank' > Rank
              \/ ReturnsPage
              \/ ReportsFailure]_vars

\* A _fetch_page call has failed max_retries times and returned None, after
\* an earlier call returned its page at a retry.
C17_Witness ==
    /\ spc = "model_delay"
    /\ slog # <<>>
    /\ slog[Len(slog)].op = "fetch"
    /\ ~slog[Len(slog)].ok
    /\ slog[Len(slog)].n = max_retries - 1
    /\ \E i \in DOMAIN slog :
           slog[i].op = "fetch" /\ slog[i].ok /\ slog[i].n > 0

\* The page load of the attempt goes through a proxy: the browser was
\* launched bound to one.
ProxyInUse == browser # NoProxy /\ browser # Closed

\* The page load of this step gets 200 and the selector.
AttemptSucceeds == AtLoad /\ ReturnsPage

\* C18: an attempt that succeeds while a proxy is in use calls
\* mark_proxy_success once for that proxy, an attempt that raises while a
\* proxy is in use calls mark_proxy_failed once for it, and an attempt that
\* used no proxy calls neither.
C18_LoadsAreMarked ==
    [][/\ (AttemptSucceeds /\ ProxyInUse) =>
              proxies' = mark_proxy_success(proxies, browser)
       /\ (FetchRaise /\ ProxyInUse) =>
              proxies' = mark_proxy_failed(proxies, browser)
       /\ (AtLoad /\ browser = NoProxy) => proxies' = proxies]_vars

\* C19: the first attempt of a _fetch_page call asks for no proxy; every
\* later attempt asks the ProxyManager, and its page load goes through the
\* proxy get_proxy returned, the browser being bound to it, or through a
\* direct connection when get_proxy returned None.
C19_LoadThroughReturnedProxy ==
    /\ [][(spc = "fetch" /\ attempt = 0) => spc' # "proxy"]_vars
    /\ [][(spc = "fetch" /\ attempt > 0) => (spc' = "proxy" /\ ppc'["c1"] # "scraper")]_vars
    /\ []((spc = "load" /\ attempt > 0 /\ browser # Closed) => browser = current_proxy)

\* The sleeps after k failed attempts that each had another one to follow:
\* 2^0, 2^1, ..., 2^(k-1) seconds.
Doubling(k) == [i \in 1..k |-> 2 ^ (i - 1)]

\* C20: a failed attempt k that is not the last one is followed by a sleep
\* of 2^k seconds before attempt k + 1; no sleep follows a successful
\* attempt or the last attempt, so a call whose max_retries attempts all
\* fail has slept max_retries - 1 times.
C20_ExponentialBackoff ==
    /\ []((InFetch /\ attempt > 0) => backoffs = Doubling(attempt))
    /\ [][(InFetch /\ ReturnsPage) => backoffs' = Doubling(attempt)]_vars
    /\ [][(InFetch /\ ReportsFailure) =>
              backoffs' = Doubling(max_retries - 1)]_vars

\* A call whose max_retries attempts all failed has returned after sleeping
\* 1 s and 2 s.
C20_Witness ==
    /\ spc = "model_delay"
    /\ slog # <<>>
    /\ slog[Len(slog)] = LogEntry("fetch", FALSE, max_retries - 1)
    /\ backoffs = <<1, 2>>
    /\ Len(backoffs) = max_retries - 1

\* ---------------------------------------------------------- scrape_listings
\* Entry i of the log is the end of a _fetch_page call.
IsFetch(i) == slog[i].op = "fetch"

\* Entry i of the log is a _random_delay of delay_min to delay_max seconds.
IsDelay(i) ==
    /\ slog[i].op = "delay"
    /\ slog[i].n >= delay_min
    /\ slog[i].n <= delay_max

\* Another _fetch_page call follows the one that ended at entry i.
FetchFollows(i) ==
    \/ \E k \in (i + 1)..Len(slog) : IsFetch(k)
    \/ InFetch

\* A delay was awaited after the call of entry i and before the next call.
DelayedAfter(i) ==
    \E m \in (i + 1)..Len(slog) :
        /\ IsDelay(m)
        /\ \A k \in (i + 1)..m : ~IsFetch(k)

\* C21: between two consecutive _fetch_page calls of scrape_listings a
\* _random_delay of delay_min to delay_max seconds is awaited, also when the
\* first of them failed or its page had no listings.
C21_DelayBetweenFetches ==
    \A i \in DOMAIN slog : (IsFetch(i) /\ FetchFollows(i)) => DelayedAfter(i)

\* A _fetch_page call of the second target has ended after a delay that
\* followed a failed call of the first target.
C21_Witness ==
    \E i \in DOMAIN slog, k \in DOMAIN slog :
        /\ i < k
        /\ IsFetch(i) /\ ~slog[i].ok /\ slog[i].target = 1
        /\ IsFetch(k) /\ slog[k].target = 2
        /\ DelayedAfter(i)

\* A _fetch_page call of the second target has ended after a delay that
\* followed a page without listings of the first target.
C21_EmptyPageWitness ==
    \E i \in DOMAIN slog, k \in DOMAIN slog :
        /\ i + 1 < k
        /\ IsFetch(i) /\ slog[i].ok /\ slog[i].target = 1
        /\ slog[i + 1].op = "page" /\ ~slog[i + 1].ok
        /\ IsFetch(k) /\ slog[k].target = 2
        /\ DelayedAfter(i)

\* ------------------------------------------------------------------- stop
\* The listing of the job has been upserted and its analysis and gating are
\* not finished.
MidListing == pc \in {"dedup", "price", "urgency", "gate"}

\* A step of stop: the scheduler is halted, the session of the bot is closed
\* or the engine of the repository is disposed of.
StopStep == stop_pc' # stop_pc

\* C22: no step of stop (halting the scheduler, closing the notification
\* sink, closing the repository) is taken while the job is in the middle of a
\* listing.
C22_StopWaitsForListing == [][StopStep => ~MidListing]_vars

\* ------------------------------------- the scrape job and the refresh job
\* scrape_listings has been entered and has not returned or raised.
ScrapeRunning ==
    spc \in {"fetch", "proxy", "relaunch", "load", "parse", "page_delay", "model_delay"}

\* A step of the scraper itself.
ScraperStep == CallStep \/ ParsePage \/ ContentRaise \/ PageDelay \/ ModelDelay

\* A step of the refresh_proxies the proxy_refresh job is in (of the
\* validation, the one in which every request raises).
RefreshJobStep ==
    \/ \E r \in JobsSourceResults : FetchFromSource("c2", r)
    \/ ValidateAndSwap("c2", AllRaise)

\* A coroutine that waits for the lock waits for a refresh that is running;
\* once the lock is released the first of the waiters can go on.
WaitsOnlyForRefresh(c) ==
    ppc[c] = "lock" =>
        IF lock.holder = "free"
        THEN ENABLED Acquire(Head(lock.waiters))
        ELSE lock.holder # c /\ Refreshing(lock.holder)

\* The scraper calls get_proxy in this step.
ScraperCallsGetProxy == spc = "fetch" /\ spc' = "proxy"

\* C23: the scrape job and the proxy_refresh job do not block each other: the
\* refresh job can start whenever it is idle and, once in its refresh, always
\* has a step, wherever the scraper is; the scraper always has a step unless
\* it waits for the lock, which it does only after finding the pool stale or
\* under-sized while the lock is taken; whoever waits for the lock waits only
\* for the refresh in progress; and a get_proxy call the scraper makes while
\* the scheduled refresh runs waits for the lock exactly when _should_refresh
\* is true, and otherwise returns at once the URL of a proxy of the pool,
\* leaving the pool as it is.
C23_JobsDoNotBlock ==
    /\ []((ppc["c2"] = "idle" /\ calls < MaxCalls) => ENABLED RefreshCall("c2"))
    /\ [](Refreshing("c2") => ENABLED RefreshJobStep)
    /\ []((ScrapeRunning /\ ppc["c1"] # "lock") => ENABLED ScraperStep)
    /\ [](\A c \in Coros : WaitsOnlyForRefresh(c))
    /\ [][(ppc["c1"] # "lock" /\ ppc'["c1"] = "lock") =>
              (ScraperCallsGetProxy /\ ShouldRefresh /\ ~LockFree)]_vars
    /\ [][(ScraperCallsGetProxy /\ Refreshing("c2")) =>
              IF ShouldRefresh
              THEN ppc'["c1"] = "lock"
              ELSE /\ ppc'["c1"] = "got"
                   /\ selected'["c1"] \in PoolUrls(proxies)
                   /\ proxies' = proxies]_vars

\* get_proxy has returned a proxy to the scraper without a refresh of its
\* own while the scheduled refresh is validating its candidates.
C23_Witness ==
    /\ spc = "proxy"
    /\ ppc["c1"] = "got"
    /\ ~by_get["c1"]
    /\ selected["c1"] # NoProxy
    /\ ppc["c2"] = "validate"

\* The scraper found the pool stale or under-sized and waits for the lock
\* the scheduled refresh holds.
C23_WaitWitness == ppc["c1"] = "lock" /\ Refreshing("c2")

\* scrape_listings has returned while the scheduled refresh is running.
C23_ScrapeEndsWitness == spc = "returned" /\ Refreshing("c2")

\* The scheduled refresh has run twice and the scraper is still at work.
C23_RefreshEndsWitness ==
    /\ ScrapeRunning
    /\ slog # <<>>
    /\ calls = MaxCalls
    /\ ppc["c2"] = "idle"

\* ------------------------------------------------------ PriceAnalyzer.analyze
\* The price analysis of the listing of this pass of the loop has been made,
\* on the table as it is.
PriceAnalysed == pc \in {"urgency", "gate"}

\* The stored row is of the make of the listing and of a model year within
\* one year of the listing's.
IsComparable(row, listing) ==
    /\ row.make = listing.make
    /\ listing.year # None
    /\ row.year # None
    /\ row.year >= listing.year - 1
    /\ row.year <= listing.year + 1

Comparables(tbl, listing) == {r \in DOMAIN tbl : IsComparable(tbl[r], listing)}

\* C24: with fewer than 3 stored listings of the listing's make within one
\* model year of it, percentile_20 is null, whatever the price, and the P20
\* rule does not set is_good_deal.
C24_NullBelowThreeComparables ==
    (PriceAnalysed /\ Cardinality(Comparables(listings, cur.listing)) < 3) =>
        /\ cur.price_analysis.percentile_20 = None
        /\ cur.price_analysis.is_good_deal => cur.price_analysis.is_below_market

\* The price is more than 15% below the mean (sum / n), the mean being known.
MoreThan15Below(mean, price) == mean.n > 0 /\ 100 * mean.n * price < 85 * mean.sum

\* The price is exactly 15% below the mean.
Exactly15Below(mean, price) ==
    mean.n > 0 /\ mean.sum > 0 /\ 100 * mean.n * price = 85 * mean.sum

\* The price is below the 20th percentile, which is defined.
UnderP20(percentile_20, price) == percentile_20 # None /\ price < percentile_20

\* C25: is_good_deal is true exactly when the price is below percentile_20
\* (when it is defined) or more than 15% below the market mean;
\* is_below_market is true exactly in the latter case and so implies
\* is_good_deal; at exactly 15% below the mean the mean rule sets neither.
C25_GoodDealRule ==
    PriceAnalysed =>
        LET a == cur.price_analysis
            price == cur.listing.price_usd
        IN /\ a.is_below_market = MoreThan15Below(a.market_average, price)
           /\ a.is_good_deal = (UnderP20(a.percentile_20, price)
                                   \/ MoreThan15Below(a.market_average, price))
           /\ a.is_below_market => a.is_good_deal
           /\ Exactly15Below(a.market_average, price) =>
                  /\ ~a.is_below_market
                  /\ a.is_good_deal => UnderP20(a.percentile_20, price)

\* A listing priced exactly 15% below the mean of its market, with a
\* percentile_20 it is not below: neither flag is set.
C25_Witness ==
    /\ PriceAnalysed
    /\ Exactly15Below(cur.price_analysis.market_average, cur.listing.price_usd)
    /\ cur.price_analysis.percentile_20 # None
    /\ ~cur.price_analysis.is_good_deal
    /\ ~cur.price_analysis.is_below_market

\* A good deal by the P20 rule alone, and one by the mean rule.
C25_P20Witness ==
    /\ PriceAnalysed
    /\ cur.price_analysis.is_good_deal
    /\ ~cur.price_analysis.is_below_market

C25_MeanWitness ==
    /\ PriceAnalysed
    /\ cur.price_analysis.is_below_market
    /\ ~UnderP20(cur.price_analysis.percentile_20, cur.listing.price_usd)

\* The confidence (in tenths) for n comparable listings.
ConfidenceFor(n) ==
    IF n >= 10 THEN 10 ELSE IF n >= 5 THEN 7 ELSE IF n >= 3 THEN 4 ELSE 2

\* C26: the confidence is 1.0, 0.7, 0.4 or 0.2 by the number of stored
\* listings of the listing's make within one model year of it: at least 10,
\* 5 to 9, 3 or 4, fewer than 3.
C26_ConfidenceByComparables ==
    PriceAnalysed =>
        cur.price_analysis.confidence
            = ConfidenceFor(Cardinality(Comparables(listings, cur.listing)))

\* A new BMW of 2021 at 14000 has been ingested into the table of the BMW
\* rows of 2021 at 12000, 13000, 15000, 16000 and 20000.
Bmw2021Case ==
    /\ cur.is_new
    /\ cur.listing.make = "BMW"
    /\ cur.listing.year = 2021
    /\ cur.listing.price_usd = 14000
    /\ Len(listings) = 6
    /\ cur.listing.id = 6
    /\ \A r \in 1..5 : listings[r].make = "BMW" /\ listings[r].year = 2021
    /\ <<listings[1].price_usd, listings[2].price_usd, listings[3].price_usd,
         listings[4].price_usd, listings[5].price_usd>>
           = <<12000, 13000, 15000, 16000, 20000>>

\* C27: in that case percentile_20 is 13000 and is_good_deal is false.
C27_Bmw2021Example ==
    (PriceAnalysed /\ Bmw2021Case) =>
        /\ cur.price_analysis.percentile_20 = 13000
        /\ ~cur.price_analysis.is_good_deal

C27_Witness == PriceAnalysed /\ Bmw2021Case

\* --------------------------------------------------- UrgencyDetector.analyze
\* The urgency analysis of the listing of this pass of the loop has been
\* made, on the price history as it is.
UrgencyAnalysed == pc = "gate"

\* The PriceHistory entries of the listing, oldest first, and the two most
\* recent of them.
IsOfListing(e) == e.listing_id = cur.listing.id
Entries == SelectSeq(price_history, IsOfListing)
Latest == Entries[Len(Entries)].price_usd
Previous == Entries[Len(Entries) - 1].price_usd

\* A price drop is computed: two entries at least, the previous not 0.
DropChecked == Len(Entries) >= 2 /\ Previous # 0

\* The latest price lies more than percent % below the previous one.
DropsMoreThan(percent) == DropChecked /\ (Previous - Latest) * 100 > percent * Previous

\* The latest price lies exactly tenths / 10 % below the previous one.
DropsExactly(tenths) == DropChecked /\ (Previous - Latest) * 1000 = tenths * Previous

\* The parts of the score, in tenths.
KeywordPart == IF DetectKeywords(cur.listing.title) THEN 5 ELSE 0
FlagPart == IF cur.listing.is_urgent THEN 3 ELSE 0
DropPart == cur.urgency_analysis.urgency_score - KeywordPart - FlagPart

\* C28: the score is the sum of 0.5 for a keyword or pattern match, 0.3 for
\* the listing's own flag, and 0.4 for a latest drop of more than 10% or 0.2
\* for one of more than 5% and at most 10%; is_urgent is score >= 0.3, so a
\* drop in (5%, 10%] alone does not make the listing urgent, and without
\* keyword, flag and price history the score is 0.
C28_AdditiveScore ==
    UrgencyAnalysed =>
        LET a == cur.urgency_analysis
        IN /\ a.urgency_score
                  = KeywordPart + FlagPart
                    + (IF DropsMoreThan(10) THEN 4 ELSE IF DropsMoreThan(5) THEN 2 ELSE 0)
           /\ a.is_urgent = (a.urgency_score >= 3)
           /\ (KeywordPart = 0 /\ FlagPart = 0 /\ DropsMoreThan(5) /\ ~DropsMoreThan(10))
                  => ~a.is_urgent
           /\ (KeywordPart = 0 /\ FlagPart = 0 /\ Entries = <<>>) => a.urgency_score = 0

\* A keyword, the flag and a drop of more than 10% together: 1.2.
C28_Witness ==
    /\ UrgencyAnalysed
    /\ KeywordPart = 5
    /\ FlagPart = 3
    /\ DropsMoreThan(10)
    /\ cur.urgency_analysis.urgency_score = 12

\* A drop of more than 5% and at most 10% alone: 0.2, not urgent.
C28_DropAloneWitness ==
    /\ UrgencyAnalysed
    /\ KeywordPart = 0
    /\ FlagPart = 0
    /\ DropsMoreThan(5)
    /\ ~DropsMoreThan(10)
    /\ cur.urgency_analysis.urgency_score = 2
    /\ ~cur.urgency_analysis.is_urgent

\* The flag alone: 0.3, urgent.
C28_FlagAloneWitness ==
    /\ UrgencyAnalysed
    /\ KeywordPart = 0
    /\ ~DropsMoreThan(5)
    /\ cur.urgency_analysis.urgency_score = 3
    /\ cur.urgency_analysis.is_urgent

\* C29: a drop of exactly 10.0% between the two most recent entries adds 0.4
\* to the score, one of exactly 5.0% adds 0.2, one of 4.9% adds nothing.
C29_BoundaryDrops ==
    UrgencyAnalysed =>
        /\ DropsExactly(100) => DropPart = 4
        /\ DropsExactly(50) => DropPart = 2
        /\ DropsExactly(49) => DropPart = 0

\* The price history without the entries of the listing that are older than
\* its two most recent ones.
IsRecent(hist, i) ==
    \/ hist[i].listing_id # cur.listing.id
    \/ Cardinality({k \in (i + 1)..Len(hist) : hist[k].listing_id = cur.listing.id}) < 2

RECURSIVE Recent(_, _)
Recent(hist, i) ==
    IF i > Len(hist) THEN <<>>
    ELSE (IF IsRecent(hist, i) THEN <<hist[i]>> ELSE <<>>) \o Recent(hist, i + 1)

\* The price history with the entries of the listing that are older than its
\* two most recent ones set to another price.
Rewritten(hist, price) ==
    [i \in DOMAIN hist |-> IF IsRecent(hist, i) THEN hist[i]
                           ELSE PriceHistory(hist[i].listing_id, price)]

\* C30: the drop the urgency analysis uses is (latest - previous) / previous
\* of the two most recent entries of the listing; with fewer than 2 entries
\* or a previous price of 0 nothing is added; the older entries of the
\* listing have no influence: without them, or with other prices in them, the
\* analysis is the same.
C30_LatestTwoEntriesOnly ==
    UrgencyAnalysed =>
        LET a == cur.urgency_analysis
        IN /\ ~DropChecked => (DropPart = 0 /\ ~a.has_price_drop)
           /\ DropChecked =>
                  /\ a.has_price_drop = ((Latest - Previous) * 100 < (0 - 5) * Previous)
                  /\ DropPart > 0 <=> a.has_price_drop
           /\ UrgencyDetector_analyze(Recent(price_history, 1), cur.listing) = a
           /\ \A p \in IngestPrices :
                  UrgencyDetector_analyze(Rewritten(price_history, p), cur.listing) = a

\* The listing has three entries; the drop from the oldest to the latest is
\* more than 10% and the one between the two most recent is not even 5%: no
\* drop is seen.
C30_Witness ==
    /\ UrgencyAnalysed
    /\ Len(Entries) >= 3
    /\ DropChecked
    /\ (Entries[1].price_usd - Latest) * 100 > 10 * Entries[1].price_usd
    /\ ~DropsMoreThan(5)
    /\ ~cur.urgency_analysis.has_price_drop

\* No drop is computed: the previous price is 0.
C30_SkippedWitness ==
    /\ UrgencyAnalysed
    /\ Len(Entries) >= 2
    /\ Previous = 0
    /\ DropPart = 0

\* C31: the urgency_score of every analysis lies between 0 and 1 inclusive
\* (0 and 10 tenths), whatever the keyword match, the flag and the drop are.
C31_ScoreWithinUnit ==
    UrgencyAnalysed =>
        /\ cur.urgency_analysis.urgency_score >= 0
        /\ cur.urgency_analysis.urgency_score <= 10

\* ------------------------------------------------------- across the cycles
\* C32: no two SentNotification records of one listing lie within 24 hours
\* of each other, whatever the cycles and the scraped batches are, also when
\* a listing occurs more than once in the batch of one cycle.
C32_OneRecordPerWindow ==
    \A m, n \in DOMAIN sent_notifications :
        (m < n /\ sent_notifications[m].listing_id = sent_notifications[n].listing_id)
            => sent_notifications[n].sent_at - sent_notifications[m].sent_at >= DEDUP_HOURS

\* The PriceHistory entries of the stored listing id, oldest first.
EntriesOf(id) ==
    LET IsOf(e) == e.listing_id = id
    IN SelectSeq(price_history, IsOf)

\* The latest recorded price of the listing lies 5% or more below the one
\* recorded before it, and no price_drop notification of the listing is
\* recorded.
UnnotifiedDrop(id) ==
    LET e == EntriesOf(id)
    IN /\ Len(e) >= 2
       /\ DropAtLeast5(e[Len(e) - 1].price_usd, e[Len(e)].price_usd)
       /\ \A n \in DOMAIN sent_notifications :
              ~(/\ sent_notifications[n].listing_id = id
                /\ sent_notifications[n].reason = "price_drop")

\* Outcome k of the cycle is of a listing scraped at its latest recorded
\* price, reached for the first time in the batch, that got past the dedup
\* query: its window has passed.
PastWindowAtDroppedPrice(k) ==
    LET o == outcomes[k]
        e == EntriesOf(o.listing)
    IN /\ o.kind \in {"queued", "passed"}
       /\ e # <<>>
       /\ o.price_usd = e[Len(e)].price_usd
       /\ \A i \in 1..(k - 1) : outcomes[i].listing # o.listing

\* C33: a drop of 5% or more of a known listing that was first seen while
\* the listing was inside its dedup window is notified as price_drop in a
\* later cycle: when nothing fails, the cycle that scrapes the listing at
\* the dropped price after the window has passed queues its notification,
\* a notification of a listing that is not new.
C33_DropNotifiedAfterWindow ==
    \A k \in DOMAIN outcomes :
        (PastWindowAtDroppedPrice(k) /\ UnnotifiedDrop(outcomes[k].listing))
            => /\ outcomes[k].kind = "queued"
               /\ ~outcomes[k].is_new
               /\ Truthy(outcomes[k].previous_price)

\* No notification of the stored listing id was ever recorded.
NeverNotified(id) ==
    \A n \in DOMAIN sent_notifications : sent_notifications[n].listing_id # id

\* C34: a notification that was gated and whose send failed is attempted
\* again in a later cycle: a listing stored by an earlier cycle that is
\* scraped unchanged and gets past the dedup query is queued again when it
\* was never notified, or when its latest drop of 5% or more was not.
C34_FailedSendRetried ==
    \A k \in DOMAIN outcomes :
        (/\ PastWindowAtDroppedPrice(k)
         /\ ~outcomes[k].is_new
         /\ outcomes[k].previous_price = outcomes[k].price_usd
         /\ (NeverNotified(outcomes[k].listing) \/ UnnotifiedDrop(outcomes[k].listing)))
            => outcomes[k].kind = "queued"

\* C35: in every state of the repository, also after an upsert_listing call
\* that raised partway, each stored listing has at least one PriceHistory
\* entry, and the price of its most recent entry is the price_usd of the row.
C35_HistoryMatchesListing ==
    \A r \in DOMAIN listings :
        LET e == EntriesOf(r)
        IN /\ e # <<>>
           /\ e[Len(e)].price_usd = listings[r].price_usd

\* ------------------------------------------------- _fetch_page, accounting
\* This step ends an attempt that was made with a proxy get_proxy returned.
ProxiedAttemptEnds ==
    /\ spc \in {"relaunch", "load"}
    /\ current_proxy # NoProxy
    /\ spc' \notin {"relaunch", "load"}

\* C36: every attempt made through a proxy obtained from get_proxy ends with
\* exactly one accounting call for that proxy: mark_proxy_success when the
\* attempt returns the page, mark_proxy_failed when it does not, a response
\* with another status than 200 included.
C36_ProxiedAttemptAccounted ==
    [][ProxiedAttemptEnds =>
           proxies' = IF ReturnsPage
                      THEN mark_proxy_success(proxies, current_proxy)
                      ELSE mark_proxy_failed(proxies, current_proxy)]_vars

\* ---------------------------------------------------- ProxyManager, the pool
\* C37: whatever refresh_proxies, mark_proxy_success and mark_proxy_failed
\* calls were made, every proxy of the pool get_proxy selects from has
\* success_count >= 1 and a success_rate of 0.2 or more; none is untested.
C37_PoolProxiesTested ==
    \A i \in DOMAIN proxies :
        /\ proxies[i].success_count >= 1
        /\ proxies[i].success_count + proxies[i].fail_count > 0
        /\ 10 * proxies[i].success_count
               >= MIN_SUCCESS_RATE * (proxies[i].success_count + proxies[i].fail_count)

\* A pooled proxy that mark_proxy_failed has brought to exactly 0.2: one
\* success of its validation and four failures.
C37_Witness ==
    \E i \in DOMAIN proxies :
        /\ proxies[i].success_count = 1
        /\ proxies[i].fail_count = 4

\* A pooled proxy with failures that mark_proxy_success was called for.
C37_MarkedBothWitness ==
    \E i \in DOMAIN proxies :
        /\ proxies[i].success_count = 2
        /\ proxies[i].fail_count >= 1

\* ------------------------------------------ PriceAnalyzer.analyze, own price
\* The stored rows a listing with a model year is compared with, the row of
\* the listing itself left out; and those of its model among them.
OtherComparables(tbl, listing) ==
    {r \in Comparables(tbl, listing) : r # listing.id}

OtherOfModel(tbl, listing) ==
    {r \in OtherComparables(tbl, listing) : tbl[r].model = listing.model}

\* The 20th percentile of the prices of a set of rows, null under 3 of them.
P20Of(tbl, rows) ==
    IF Cardinality(rows) < 3 THEN None
    ELSE SortedPrices(tbl, rows)[(Cardinality(rows) * 20) \div 100 + 1]

\* C38: the market mean and percentile_20 of an analysis are computed from
\* the other stored listings only, the analysed listing's own row left out,
\* also when analyze runs right after the upsert of the listing; for the
\* rows at 12000, 13000, 15000, 16000, 20000 and a listing at 14000 the mean
\* is 15200.
C38_OwnPriceLeftOut ==
    (PriceAnalysed /\ cur.listing.year # None) =>
        LET a == cur.price_analysis
            others == OtherComparables(listings, cur.listing)
            same == OtherOfModel(listings, cur.listing)
        IN /\ a.market_average.n = Cardinality(same)
           /\ a.market_average.sum = SumPrices(listings, same)
           /\ a.percentile_20 = P20Of(listings, others)
           /\ Bmw2021Case => a.market_average.sum = 15200 * a.market_average.n

\* The listing has a model year and is strictly the cheapest of its
\* comparables, its own row among them.
CheapestComparable ==
    /\ cur.listing.year # None
    /\ cur.listing.id \in Comparables(listings, cur.listing)
    /\ \A r \in OtherComparables(listings, cur.listing) :
           cur.listing.price_usd < listings[r].price_usd

\* C39: for a listing analysed after its own upsert that has 3 or 4
\* comparables, itself included, percentile_20 is defined, and when the
\* listing is the cheapest of them the P20 rule sets is_good_deal: three
\* samples are enough for the rule to fire.
C39_P20FiresFromThree ==
    (/\ PriceAnalysed
     /\ cur.listing.year # None
     /\ Cardinality(Comparables(listings, cur.listing)) \in {3, 4}) =>
        /\ cur.price_analysis.percentile_20 # None
        /\ CheapestComparable =>
               /\ UnderP20(cur.price_analysis.percentile_20, cur.listing.price_usd)
               /\ cur.price_analysis.is_good_deal

====
